---- MODULE Spec2Model ----
(***************************************************************************)
(* Credential detection pipeline of mcp-content-credentials:               *)
(* C2PAService (trust bootstrap, embedded manifest read, output            *)
(* classification, watermark fallback), TrustMarkService, the validators   *)
(* and the download helper.                                                *)
(*                                                                         *)
(* A JavaScript string is a sequence of chunks (TLA+ strings).  Strings    *)
(* the code searches or trims (reader output, engine error messages, file  *)
(* paths) are split into single characters; message templates keep their   *)
(* literal text as one chunk.  Concatenation is \o, '' is <<>>.            *)
(* An optional field is <<>> when absent and <<v>> when present.           *)
(***************************************************************************)
EXTENDS Integers, Sequences, FiniteSets, TLC

VARIABLES
    trustConfigPromise, \* C2PAService.trustConfigPromise: pending/fulfilled/rejected
    trustConfigObj,     \* documents handed to loadTrustConfig (optional set)
    trustEnv,           \* what the import, the three fetches and the load do (optional)
    trustFetches,       \* invocations of initializeTrustConfig in this process
    pc,                 \* per request: position in readCredentialsFromUrl/File
    input,              \* per request: the argument of the call
    filePath,           \* per request: filePath of readCredentialsFromFile
    result,             \* per request: the C2PAResult returned (optional)
    readerCalls,        \* per request: invocations of Reader.fromAsset
    readerResolved,     \* per request: executeC2PANode settled and classified
    readerOutcome,      \* per request: what the engine did (optional)
    decoderCalls,       \* per request: invocations of detectWatermark
    decoderOutcome,     \* per request: what the decoder process did (optional)
    downloads,          \* per request: invocations of downloadFile
    downloadOutcome,    \* per request: how downloadFile ended (optional)
    tempFiles,          \* paths of the temporary files on disk
    diagnostics,        \* per request: error texts written to the log at warn/error
    parseIn,            \* [stdout, stderr] handed to parseC2PAOutput
    parseOut,           \* its result (optional)
    stalled,            \* per request: the remote of its download stopped sending
    cancelled,          \* per request: the caller cancelled the request
    fnIn,               \* the function applied outside a request and its argument
    fnOut,              \* what it returned (optional)
    activeTransports,   \* session ids that activeTransports maps to a transport
    ssePc,              \* per session: position of its GET /mcp handler
    connection,         \* per session: the client's SSE connection
    postReply           \* how the last POST /message was answered

vars == <<trustConfigPromise, trustConfigObj, trustEnv, trustFetches, pc, input,
          filePath, result, readerCalls, readerResolved, readerOutcome,
          decoderCalls, decoderOutcome, downloads, downloadOutcome, tempFiles,
          diagnostics, parseIn, parseOut, stalled, cancelled, fnIn, fnOut,
          activeTransports, ssePc, connection, postReply>>

reqVars == <<pc, input, filePath, result, readerCalls, readerResolved,
             readerOutcome, decoderCalls, decoderOutcome, downloads,
             downloadOutcome, tempFiles, diagnostics>>
trustVars == <<trustConfigPromise, trustConfigObj, trustEnv, trustFetches>>
parseVars == <<parseIn, parseOut>>
callerVars == <<stalled, cancelled>>
fnVars == <<fnIn, fnOut>>
sseVars == <<activeTransports, ssePc, connection, postReply>>

(***************************************************************************)
(* Bounds                                                                  *)
(***************************************************************************)
NumRequests == 2

Requests == 1..NumRequests

None == <<>>
Some(v) == <<v>>
IsSome(o) == Len(o) = 1
Get(o) == o[1]

(***************************************************************************)
(* String primitives                                                       *)
(***************************************************************************)
NUL == "\\0"

Whitespace == {" ", "\n", "\t"}

\* String.prototype.includes
Includes(s, p) ==
    \E i \in 1..(Len(s) - Len(p) + 1) : SubSeq(s, i, i + Len(p) - 1) = p

RECURSIVE TrimStart(_)
TrimStart(s) ==
    IF s # <<>> /\ Head(s) \in Whitespace THEN TrimStart(Tail(s)) ELSE s

RECURSIVE TrimEnd(_)
TrimEnd(s) ==
    IF s # <<>> /\ s[Len(s)] \in Whitespace
    THEN TrimEnd(SubSeq(s, 1, Len(s) - 1)) ELSE s

\* String.prototype.trim
Trim(s) == TrimEnd(TrimStart(s))

(***************************************************************************)
(* constants.ts                                                            *)
(***************************************************************************)
NoClaimFound ==
    <<"N", "o", " ", "c", "l", "a", "i", "m", " ", "f", "o", "u", "n", "d">>
NoManifestFound ==
    <<"N", "o", " ", "m", "a", "n", "i", "f", "e", "s", "t", " ",
      "f", "o", "u", "n", "d">>

NO_CREDENTIALS_INDICATORS == <<NoClaimFound, NoManifestFound>>

(***************************************************************************)
(* Manifest objects and their JSON text.  A manifest is a flat object: a   *)
(* sequence of <<key, value>> pairs of strings without quotes or           *)
(* backslashes (so that no escaping is needed).                            *)
(***************************************************************************)
ClaimFound == <<"c", "l", "a", "i", "m", " ", "f", "o", "u", "n", "d">>

EmptyManifest == <<>>
PlainManifest == << <<<<"t">>, ClaimFound>> >>
SentinelManifest == << <<<<"e">>, NoClaimFound>> >>

Manifests == {EmptyManifest, PlainManifest, SentinelManifest}

Quote == "\""

StringifyPair(p) ==
    <<" ", " ", Quote>> \o p[1] \o <<Quote, ":", " ", Quote>> \o p[2] \o <<Quote>>

RECURSIVE StringifyPairs(_)
StringifyPairs(m) ==
    IF Len(m) = 1 THEN StringifyPair(m[1])
    ELSE StringifyPair(m[1]) \o <<",", "\n">> \o StringifyPairs(Tail(m))

\* JSON.stringify(manifest, null, 2)
JsonStringify(m) ==
    IF m = <<>> THEN <<"{", "}">>
    ELSE <<"{", "\n">> \o StringifyPairs(m) \o <<"\n", "}">>

\* JSON.parse: the text of a manifest object parses to that object, any
\* other text throws a SyntaxError.
JsonParses(s) == \E m \in Manifests : JsonStringify(m) = s
JsonParse(s) == CHOOSE m \in Manifests : JsonStringify(m) = s

(***************************************************************************)
(* C2PAResult                                                              *)
(***************************************************************************)
C2PAResult(success, hasCredentials, manifest, trustMarkData, error) ==
    [success |-> success, hasCredentials |-> hasCredentials,
     manifest |-> manifest, trustMarkData |-> trustMarkData, error |-> error]

NotFoundResult == C2PAResult(TRUE, FALSE, None, None, None)

FailureResultWithoutMessage(message) == C2PAResult(FALSE, FALSE, None, None, None)

\* the result built in a catch block: { success: false, hasCredentials: false, error }
FailureResult(message) == C2PAResult(FALSE, FALSE, None, None, Some(message))

(***************************************************************************)
(* C2PAService.hasNoCredentials and parseC2PAOutput                        *)
(***************************************************************************)
HasNoCredentialsExact(output) ==
    \E k \in 1..Len(NO_CREDENTIALS_INDICATORS) :
        output = NO_CREDENTIALS_INDICATORS[k]

hasNoCredentials(output) ==
    \E k \in 1..Len(NO_CREDENTIALS_INDICATORS) :
        Includes(output, NO_CREDENTIALS_INDICATORS[k])

ParseFailureText == <<"Failed to parse manifest JSON">>

parseC2PAOutput(stdout, stderr) ==
    LET output == Trim(stdout)
        errorOutput == Trim(stderr)
    IN  IF hasNoCredentials(output) \/ hasNoCredentials(errorOutput)
        THEN NotFoundResult
        ELSE IF output = <<>>
        THEN NotFoundResult
        ELSE IF JsonParses(output)
        THEN C2PAResult(TRUE, TRUE, Some(JsonParse(output)), None, None)
        ELSE FailureResult(ParseFailureText)

(***************************************************************************)
(* validators.ts, types/errors.ts, file-utils.ts                           *)
(***************************************************************************)
\* validateNonEmpty: the message thrown (optional)
validateNonEmpty(value, fieldName) ==
    IF value = <<>> \/ Len(Trim(value)) = 0
    THEN Some(<<fieldName, " cannot be empty">>)
    ELSE None

\* validateFilePath: the message thrown (optional)
validateFilePath(path) ==
    IF IsSome(validateNonEmpty(path, "filePath"))
    THEN validateNonEmpty(path, "filePath")
    ELSE IF Includes(path, <<NUL>>)
    THEN Some(<<"File path contains invalid characters">>)
    ELSE None

InvalidUrlError(url) == <<"Invalid URL: ">> \o url
FileNotFoundError(path) == <<"File not found: ">> \o path
DownloadError(url) == <<"Failed to download file from URL: ">> \o url

DOWNLOAD_TIMEOUT_MS == 30000

DownloadTimeoutError(url, timeoutMs) ==
    <<"Download timeout after ", ToString(timeoutMs), "ms for URL: ">> \o url

\* The read error of the manifest engine keeps the original message.
C2PANodeError(message) == message

validateUrlAnyProtocol(u) ==
    IF ~u.parses THEN Some(InvalidUrlError(u.text)) ELSE None

\* validateUrl: the message thrown (optional).  new URL(urlString) either
\* throws (parses = FALSE) or yields the protocol.
validateUrl(u) ==
    IF ~u.parses THEN Some(InvalidUrlError(u.text))
    ELSE IF u.protocol \notin {"http:", "https:"}
    THEN Some(InvalidUrlError(<<"Unsupported protocol: ", u.protocol>>))
    ELSE None

(***************************************************************************)
(* Inputs of the requests and the file system                              *)
(***************************************************************************)
EmptyPath == <<>>
BlankPath == <<" ">>
NulPath == <<"/", "a", NUL>>
PresentPath == <<"/", "a">>
MissingPath == <<"/", "b">>

FilePaths == {EmptyPath, BlankPath, NulPath, PresentPath, MissingPath}

ExistingFiles == {PresentPath}

FileInput(path) ==
    [kind |-> "file", text |-> path, parses |-> FALSE, protocol |-> ""]
UrlInput(text, parses, protocol) ==
    [kind |-> "url", text |-> text, parses |-> parses, protocol |-> protocol]

Urls ==
    { UrlInput(<<"not a url">>, FALSE, ""),
      UrlInput(<<"ftp://h/f.jpg">>, TRUE, "ftp:"),
      UrlInput(<<"https://h/f.jpg">>, TRUE, "https:") }

NoInput == [kind |-> "none", text |-> <<>>, parses |-> FALSE, protocol |-> ""]

TempPathShared(r) == <<"/", "tmp", "/", "c2pa_", "0">>

\* path.join(os.tmpdir(), generateTempFileName(url)): the timestamp and the
\* random part make the name the request's own
TempPath(r) == <<"/", "tmp", "/", "c2pa_", ToString(r)>>

\* fileExists: fs.access succeeds
fileExists(path, temps) == path \in ExistingFiles \/ path \in temps

\* how the awaited fetch ends: a response with a body, a response that is
\* not ok, or the abort of the timer
ResponseOutcomes == {"ok", "httpError", "timeout"}
\* how the pipeline into the temporary file ends
PipelineOutcomes == {"ok", "streamError"}

DownloadOutcomes == ResponseOutcomes \cup PipelineOutcomes
UnlinkOutcomes == {"ok", "error"}

(***************************************************************************)
(* Manifest engine (c2pa-node Reader) and executeC2PANode                  *)
(***************************************************************************)
IoErrorMessage == <<"E", "I", "O">>
EngineErrorMessages == {NoManifestFound, IoErrorMessage}

EngineOutcome(kind, message, manifest) ==
    [kind |-> kind, message |-> message, manifest |-> manifest]

EngineOutcomes ==
    { EngineOutcome("throwError", msg, <<>>) : msg \in EngineErrorMessages }
    \cup { EngineOutcome("throwNonError", <<>>, <<>>),
           EngineOutcome("nullReader", <<>>, <<>>),
           EngineOutcome("falsyManifest", <<>>, <<>>) }
    \cup { EngineOutcome("manifest", <<>>, m) : m \in Manifests }

\* what the engine does to a downloaded temporary file: one outcome of each
\* class (read failure, manifest found, nothing found)
DownloadedEngineOutcomes ==
    { EngineOutcome("throwError", IoErrorMessage, <<>>),
      EngineOutcome("nullReader", <<>>, <<>>),
      EngineOutcome("manifest", <<>>, PlainManifest) }

EngineOutcomesFor(kind) ==
    IF kind = "url" THEN DownloadedEngineOutcomes ELSE EngineOutcomes

Threw(message) == [threw |-> TRUE, message |-> message,
                   stdout |-> <<>>, stderr |-> <<>>]
Returned(stdout, stderr) == [threw |-> FALSE, message |-> <<>>,
                             stdout |-> stdout, stderr |-> stderr]

executeC2PANodeEmptyIsAbsent(o) ==
    IF o.kind = "throwError" THEN Threw(C2PANodeError(o.message))
    ELSE IF o.kind = "throwNonError"
    THEN Threw(C2PANodeError(<<"Unknown error during c2pa-node read">>))
    ELSE IF o.kind \in {"nullReader", "falsyManifest"} \/ o.manifest = <<>>
    THEN Returned(<<>>, NoManifestFound)
    ELSE Returned(JsonStringify(o.manifest), <<>>)

executeC2PANode(o) ==
    IF o.kind = "throwError" THEN Threw(C2PANodeError(o.message))
    ELSE IF o.kind = "throwNonError"
    THEN Threw(C2PANodeError(<<"Unknown error during c2pa-node read">>))
    ELSE IF o.kind = "nullReader" THEN Returned(<<>>, NoManifestFound)
    ELSE IF o.kind = "falsyManifest" THEN Returned(<<>>, NoManifestFound)
    ELSE Returned(JsonStringify(o.manifest), <<>>)

(***************************************************************************)
(* TrustMarkService                                                        *)
(***************************************************************************)
WatermarkData == [identifier |-> <<"id1">>, schema |-> "BCH_5",
                  raw |-> <<"0101">>, manifestUrl |-> None]

Reply(success, hasWatermark, watermarkData, error) ==
    [success |-> success, hasWatermark |-> hasWatermark,
     watermarkData |-> watermarkData, error |-> error]

NoReply == Reply(FALSE, FALSE, None, None)

DecoderErrorText == <<"model not found">>
ExecErrorText == <<"Command failed: python3">>

\* one run of the decoder process: how exec ended, the reply parsed from
\* stdout, and what the process wrote to stderr
DecoderRun(kind, reply, stderr) ==
    [kind |-> kind, reply |-> reply, stderr |-> stderr]

DecoderOutcome(kind, reply) == DecoderRun(kind, reply, <<>>)

DecoderReplies ==
    { Reply(FALSE, FALSE, None, Some(DecoderErrorText)),
      Reply(FALSE, FALSE, None, None),
      Reply(TRUE, FALSE, None, None),
      Reply(TRUE, TRUE, None, None),
      Reply(TRUE, TRUE, Some(WatermarkData), None) }

DecoderOutcomes ==
    { DecoderOutcome(k, NoReply) : k \in {"enoent", "execError", "malformed"} }
    \cup { DecoderOutcome("reply", rep) : rep \in DecoderReplies }

\* what the decoder does to a downloaded temporary file
DownloadedDecoderOutcomes ==
    { DecoderOutcome("reply", Reply(TRUE, FALSE, None, None)),
      DecoderOutcome("reply", Reply(TRUE, TRUE, Some(WatermarkData), None)) }

DecoderOutcomesFor(kind) ==
    IF kind = "url" THEN DownloadedDecoderOutcomes ELSE DecoderOutcomes

\* the decoder does not see how the reader reported that there is no
\* manifest: every way it can end is explored after a null reader, the two
\* that return after the other reports
DecoderOutcomesAfter(kind, o) ==
    IF o.kind = "nullReader" THEN DecoderOutcomesFor(kind)
    ELSE DownloadedDecoderOutcomes

TmThrew(message) == [threw |-> TRUE, message |-> message, value |-> NoReply]
TmReturned(reply) == [threw |-> FALSE, message |-> <<>>, value |-> reply]

RuntimeMissingText ==
    <<"Python or TrustMark decoder not found. Install with: pip install trustmark Pillow">>
MalformedReplyText == <<"Failed to parse TrustMark decoder output">>
\* the TypeError of reading a property of the JSON value null
NotObjectText == <<"Cannot read properties of null (reading 'success')">>

\* a catch block that reports every failure with one message
executeTrustMarkDecoderOneMessage(d) ==
    IF d.kind # "reply" \/ ~d.reply.success
    THEN TmThrew(<<"TrustMark decoder failed">>)
    ELSE TmReturned(d.reply)

\* a decoder adapter that treats output on stderr as a failure
executeTrustMarkDecoderStderrFails(d) ==
    IF d.stderr # <<>> THEN TmThrew(d.stderr)
    ELSE IF d.kind # "reply" THEN TmThrew(ExecErrorText)
    ELSE IF ~d.reply.success THEN TmThrew(<<"TrustMark decoder failed">>)
    ELSE TmReturned(d.reply)

\* executeTrustMarkDecoder: exec, JSON.parse of the reply, the catch block.
\* stderr is only logged.
executeTrustMarkDecoder(d) ==
    IF d.kind = "enoent" THEN TmThrew(RuntimeMissingText)
    ELSE IF d.kind = "execError" THEN TmThrew(ExecErrorText)
    ELSE IF d.kind = "malformed" THEN TmThrew(MalformedReplyText)
    ELSE IF d.kind = "notObject" THEN TmThrew(NotObjectText)
    ELSE IF ~d.reply.success
    THEN TmThrew(IF IsSome(d.reply.error) THEN Get(d.reply.error)
                 ELSE <<"TrustMark decoder failed">>)
    ELSE TmReturned(d.reply)

\* an adapter that rebuilds the payload and leaves manifestUrl out
detectWatermarkDropsManifestUrl(d) ==
    IF d.kind = "reply" /\ d.reply.success
       /\ d.reply.hasWatermark /\ IsSome(d.reply.watermarkData)
    THEN Reply(TRUE, TRUE,
               Some([Get(d.reply.watermarkData) EXCEPT !.manifestUrl = None]),
               None)
    ELSE Reply(d.kind = "reply" /\ d.reply.success, FALSE, None, None)

\* detectWatermark: the TrustMarkResult
detectWatermark(d) ==
    LET res == executeTrustMarkDecoder(d)
    IN  IF res.threw
        THEN Reply(FALSE, FALSE, None, Some(res.message))
        ELSE IF res.value.hasWatermark /\ IsSome(res.value.watermarkData)
        THEN Reply(TRUE, TRUE, res.value.watermarkData, None)
        ELSE Reply(TRUE, FALSE, None, None)

(***************************************************************************)
(* Trust bootstrap: constructor, initializeTrustConfig                     *)
(***************************************************************************)
\* fetch(url).then(r => r.text()): a text, the empty text, a rejection, or
\* an endpoint that never answers
FetchOutcomes == {"ok", "empty", "fail", "stall"}

TrustEnv(importOk, anchors, allowed, config, loadThrows) ==
    [importOk |-> importOk, anchors |-> anchors, allowedList |-> allowed,
     config |-> config, loadThrows |-> loadThrows]

TrustEnvs ==
    { TrustEnv(i, a, l, c, t) :
        i \in BOOLEAN, a \in FetchOutcomes, l \in FetchOutcomes,
        c \in FetchOutcomes, t \in BOOLEAN }

\* the environments the request pipeline is explored under: a bootstrap that
\* is fulfilled and one that is rejected (the requests read neither the
\* fetched documents nor the loaded configuration)
PipelineTrustEnvs ==
    { TrustEnv(TRUE, "ok", "ok", "ok", FALSE),
      TrustEnv(TRUE, "ok", "ok", "ok", TRUE) }

\* the object handed to loadTrustConfig: the documents whose text is non-empty
TrustConfigObjOf(env) ==
    {d \in {"trustAnchors", "allowedList", "trustConfig"} :
        \/ d = "trustAnchors" /\ env.anchors = "ok"
        \/ d = "allowedList" /\ env.allowedList = "ok"
        \/ d = "trustConfig" /\ env.config = "ok"}

\* Promise.all over the three fetches never settles while one of them stalls
FetchesStall(env) == "stall" \in {env.anchors, env.allowedList, env.config}

\* Promise.all rejects on the first rejected fetch
initializeTrustConfigFailFast(env) ==
    IF ~env.importOk
    THEN [promise |-> "rejected", config |-> None]
    ELSE IF "fail" \in {env.anchors, env.allowedList, env.config}
    THEN [promise |-> "rejected", config |-> None]
    ELSE IF FetchesStall(env)
    THEN [promise |-> "pending", config |-> None]
    ELSE IF env.loadThrows
    THEN [promise |-> "rejected", config |-> None]
    ELSE [promise |-> "fulfilled", config |-> Some(TrustConfigObjOf(env))]

\* initializeTrustConfig: the promise's state and the loaded config
initializeTrustConfig(env) ==
    IF ~env.importOk
    THEN [promise |-> "rejected", config |-> None]
    ELSE IF FetchesStall(env)
    THEN [promise |-> "pending", config |-> None]
    ELSE IF env.loadThrows
    THEN [promise |-> "rejected", config |-> None]
    ELSE [promise |-> "fulfilled", config |-> Some(TrustConfigObjOf(env))]

\* the import, the fetches and the load of the attempt in flight take place
InitializeTrustConfigSettle(envs) ==
    /\ trustConfigPromise = "pending"
    /\ trustEnv = None
    /\ \E env \in envs :
        /\ trustEnv' = Some(env)
        /\ trustConfigPromise' = initializeTrustConfig(env).promise
        /\ trustConfigObj' = initializeTrustConfig(env).config
    /\ UNCHANGED <<trustFetches, reqVars, parseVars, callerVars, fnVars, sseVars>>

ensureTrustConfiguredNoWait(promise) == [starts |-> 0, settles |-> "fulfilled"]
ensureTrustConfiguredNoCatch(promise) == [starts |-> 0, settles |-> promise]
ensureTrustConfiguredRetry(promise) ==
    [starts |-> IF promise = "rejected" THEN 1 ELSE 0,
     settles |-> IF promise = "pending" THEN "pending" ELSE "fulfilled"]

\* ensureTrustConfigured: await this.trustConfigPromise.catch(() => {}).
\* starts: the calls of initializeTrustConfig it makes; settles: how the await
\* ends ("pending" while it has not)
ensureTrustConfigured(promise) ==
    [starts |-> 0,
     settles |-> IF promise = "pending" THEN "pending" ELSE "fulfilled"]

\* the message of the error initializeTrustConfig rethrows
TrustErrorText == <<"trust configuration failed">>

(***************************************************************************)
(* formatForChatGPT: the kind of text presented                            *)
(***************************************************************************)
formatForChatGPT(res) ==
    IF ~res.success
    THEN [kind |-> "error",
          text |-> <<"Error: ">> \o
                   (IF IsSome(res.error) /\ Get(res.error) # <<>>
                    THEN Get(res.error)
                    ELSE <<"Failed to check credentials">>)]
    ELSE IF ~res.hasCredentials
    THEN [kind |-> "notFound", text |-> <<"NO CONTENT CREDENTIALS FOUND">>]
    ELSE [kind |-> "credentials", text |-> <<"CONTENT CREDENTIALS">>]

(***************************************************************************)
(* Init                                                                    *)
(***************************************************************************)
NoParseInput == [stdout |-> <<>>, stderr |-> <<>>]

\* no function is applied outside the requests
NoCall == [fn |-> "none", arg |-> <<>>]

MaxSessions == 2

\* the ids that GET /mcp gives to the sessions it creates
Sessions == 1..MaxSessions

NoPost == [session |-> 0, status |-> 0, handled |-> FALSE, connection |-> "none"]

\* no client has connected: new Map()
SseIdle ==
    /\ activeTransports = {}
    /\ ssePc = [s \in Sessions |-> "idle"]
    /\ connection = [s \in Sessions |-> "none"]
    /\ postReply = NoPost

RequestInit ==
    /\ pc = [r \in Requests |-> "idle"]
    /\ input = [r \in Requests |-> NoInput]
    /\ filePath = [r \in Requests |-> <<>>]
    /\ result = [r \in Requests |-> None]
    /\ readerCalls = [r \in Requests |-> 0]
    /\ readerResolved = [r \in Requests |-> FALSE]
    /\ readerOutcome = [r \in Requests |-> None]
    /\ decoderCalls = [r \in Requests |-> 0]
    /\ decoderOutcome = [r \in Requests |-> None]
    /\ downloads = [r \in Requests |-> 0]
    /\ downloadOutcome = [r \in Requests |-> None]
    /\ tempFiles = {}
    /\ diagnostics = [r \in Requests |-> {}]
    /\ stalled = [r \in Requests |-> FALSE]
    /\ cancelled = [r \in Requests |-> FALSE]

\* createC2PAService(): the constructor has started initializeTrustConfig
Init ==
    /\ trustConfigPromise = "pending"
    /\ trustConfigObj = None
    /\ trustEnv = None
    /\ trustFetches = 1
    /\ RequestInit
    /\ SseIdle
    /\ parseIn = NoParseInput
    /\ parseOut = None
    /\ fnIn = NoCall
    /\ fnOut = None

(***************************************************************************)
(* readCredentialsFromUrl / readCredentialsFromFile                        *)
(***************************************************************************)
SkipWatermarkNever(c2paResult) == FALSE
SkipWatermarkAlways(c2paResult) == TRUE
SkipWatermarkOnFailure(c2paResult) == ~c2paResult.success

\* if (c2paResult.hasCredentials) return c2paResult
SkipWatermark(c2paResult) == c2paResult.hasCredentials

FinalResultSurfacesDecoderError(trustMarkResult) ==
    IF ~trustMarkResult.success /\ IsSome(trustMarkResult.error)
    THEN FailureResult(Get(trustMarkResult.error))
    ELSE IF trustMarkResult.hasWatermark /\ IsSome(trustMarkResult.watermarkData)
    THEN C2PAResult(TRUE, TRUE, None, trustMarkResult.watermarkData, None)
    ELSE NotFoundResult

\* steps 2 and 3 of readCredentialsFromFile: the result after detectWatermark
FinalResult(trustMarkResult) ==
    IF trustMarkResult.hasWatermark /\ IsSome(trustMarkResult.watermarkData)
    THEN C2PAResult(TRUE, TRUE, None, trustMarkResult.watermarkData, None)
    ELSE NotFoundResult

\* return from readCredentialsFromFile; a URL request still runs its finally
Return(r, res) ==
    /\ result' = [result EXCEPT ![r] = Some(res)]
    /\ pc' = [pc EXCEPT ![r] = IF input[r].kind = "url" THEN "cleanup" ELSE "done"]

StackFrame == "\n    at <frame>"

\* error.stack: the message followed by the frames
ErrorStack(message) == message \o <<StackFrame>>

\* logger.error(text, error): the log line carries error.message and error.stack
LoggedError(message) == {message, ErrorStack(message)}

\* the catch block of readCredentialsFromFile
CatchReturn(r, message) ==
    /\ Return(r, FailureResult(message))
    /\ diagnostics' = [diagnostics EXCEPT ![r] = @ \cup LoggedError(message)]

\* readCredentialsFromFile(filePath) is called: await ensureTrustConfigured()
ReadCredentialsFromFile(r) ==
    /\ pc[r] = "idle"
    /\ \E path \in FilePaths :
        /\ input' = [input EXCEPT ![r] = FileInput(path)]
        /\ filePath' = [filePath EXCEPT ![r] = path]
    /\ pc' = [pc EXCEPT ![r] = "awaitTrust"]
    /\ UNCHANGED <<result, readerCalls, readerResolved, readerOutcome,
                   decoderCalls, decoderOutcome, downloads, downloadOutcome,
                   tempFiles, diagnostics, trustVars, parseVars, callerVars, fnVars, sseVars>>

\* readCredentialsFromUrl(url) is called: validateUrl, then await downloadFile
\* (setTimeout, await fetch)
ReadCredentialsFromUrl(r) ==
    /\ pc[r] = "idle"
    /\ \E u \in Urls :
        /\ input' = [input EXCEPT ![r] = u]
        /\ IF IsSome(validateUrl(u))
           THEN /\ result' = [result EXCEPT ![r] =
                                Some(FailureResult(Get(validateUrl(u))))]
                /\ diagnostics' = [diagnostics EXCEPT ![r] =
                                     @ \cup LoggedError(Get(validateUrl(u)))]
                /\ pc' = [pc EXCEPT ![r] = "done"]
                /\ UNCHANGED downloads
           ELSE /\ downloads' = [downloads EXCEPT ![r] = @ + 1]
                /\ pc' = [pc EXCEPT ![r] = "downloading"]
                /\ UNCHANGED <<result, diagnostics>>
    /\ UNCHANGED <<filePath, readerCalls, readerResolved, readerOutcome,
                   decoderCalls, decoderOutcome, downloadOutcome, tempFiles,
                   trustVars, parseVars, callerVars, fnVars, sseVars>>

\* the catch block of downloadFile and of readCredentialsFromUrl: the request
\* returns the failure; tempPath is still null, so the finally deletes nothing
DownloadFails(r, o) ==
    LET message == IF o = "timeout"
                   THEN DownloadTimeoutError(input[r].text, DOWNLOAD_TIMEOUT_MS)
                   ELSE DownloadError(input[r].text)
    IN  /\ downloadOutcome' = [downloadOutcome EXCEPT ![r] = Some(o)]
        /\ result' = [result EXCEPT ![r] = Some(FailureResult(message))]
        /\ diagnostics' = [diagnostics EXCEPT ![r] = @ \cup LoggedError(message)]
        /\ pc' = [pc EXCEPT ![r] = "done"]

\* the awaited fetch of downloadFile ends while the timer is armed: with a
\* response (clearTimeout; createWriteStream; await pipeline), with a response
\* that is not ok, or with the abort of the timer.  A remote that has stopped
\* sending leaves only the abort.
DownloadSettle(r) ==
    /\ pc[r] = "downloading"
    /\ \E o \in ResponseOutcomes :
        /\ stalled[r] => o = "timeout"
        /\ IF o = "ok"
           THEN /\ tempFiles' = tempFiles \cup {TempPath(r)}
                /\ pc' = [pc EXCEPT ![r] = "streaming"]
                /\ UNCHANGED <<result, diagnostics, downloadOutcome>>
           ELSE /\ DownloadFails(r, o)
                /\ UNCHANGED tempFiles
    /\ UNCHANGED <<input, filePath, readerCalls, readerResolved, readerOutcome,
                   decoderCalls, decoderOutcome, downloads,
                   trustVars, parseVars, callerVars, fnVars, sseVars>>

\* the pipeline into the temporary file ends (the timer is cleared); on
\* success readCredentialsFromFile(tempPath) is called
PipelineSettle(r) ==
    /\ pc[r] = "streaming"
    /\ ~stalled[r]
    /\ \E o \in PipelineOutcomes :
        IF o = "ok"
        THEN /\ downloadOutcome' = [downloadOutcome EXCEPT ![r] = Some(o)]
             /\ filePath' = [filePath EXCEPT ![r] = TempPath(r)]
             /\ pc' = [pc EXCEPT ![r] = "awaitTrust"]
             /\ UNCHANGED <<result, diagnostics>>
        ELSE /\ DownloadFails(r, o)
             /\ UNCHANGED filePath
    /\ UNCHANGED <<input, readerCalls, readerResolved, readerOutcome,
                   decoderCalls, decoderOutcome, downloads, tempFiles,
                   trustVars, parseVars, callerVars, fnVars, sseVars>>

\* ensureTrustConfigured resumes; validateFilePath; await ensureFileExists.
\* A rejection of ensureTrustConfigured is outside the try of
\* readCredentialsFromFile: the call rejects, and readCredentialsFromUrl
\* catches it.
ValidateFilePath(r) ==
    /\ pc[r] = "awaitTrust"
    /\ LET awaited == ensureTrustConfigured(trustConfigPromise)
       IN  /\ awaited.settles # "pending"
           /\ trustFetches' = trustFetches + awaited.starts
           /\ IF awaited.settles = "rejected"
              THEN IF input[r].kind = "url"
                   THEN CatchReturn(r, TrustErrorText)
                   ELSE /\ pc' = [pc EXCEPT ![r] = "rejected"]
                        /\ UNCHANGED <<result, diagnostics>>
              ELSE IF IsSome(validateFilePath(filePath[r]))
              THEN CatchReturn(r, Get(validateFilePath(filePath[r])))
              ELSE /\ pc' = [pc EXCEPT ![r] = "checkingFile"]
                   /\ UNCHANGED <<result, diagnostics>>
    /\ UNCHANGED <<input, filePath, readerCalls, readerResolved, readerOutcome,
                   decoderCalls, decoderOutcome, downloads, downloadOutcome,
                   tempFiles, trustConfigPromise, trustConfigObj, trustEnv,
                   parseVars, callerVars, fnVars, sseVars>>

EnsureFileExistsSettleParallel(r) ==
    /\ pc[r] = "checkingFile"
    /\ IF fileExists(filePath[r], tempFiles)
       THEN /\ readerCalls' = [readerCalls EXCEPT ![r] = @ + 1]
            /\ decoderCalls' = [decoderCalls EXCEPT ![r] = @ + 1]
            /\ pc' = [pc EXCEPT ![r] = "reading"]
            /\ UNCHANGED <<result, diagnostics>>
       ELSE /\ CatchReturn(r, FileNotFoundError(filePath[r]))
            /\ UNCHANGED <<readerCalls, decoderCalls>>
    /\ UNCHANGED <<input, filePath, readerResolved, readerOutcome,
                   decoderOutcome, downloads, downloadOutcome, tempFiles,
                   trustVars, parseVars, callerVars, fnVars, sseVars>>

\* ensureFileExists settles; executeC2PANode is called (Reader.fromAsset)
EnsureFileExistsSettle(r) ==
    /\ pc[r] = "checkingFile"
    /\ IF fileExists(filePath[r], tempFiles)
       THEN /\ readerCalls' = [readerCalls EXCEPT ![r] = @ + 1]
            /\ pc' = [pc EXCEPT ![r] = "reading"]
            /\ UNCHANGED <<result, diagnostics>>
       ELSE /\ CatchReturn(r, FileNotFoundError(filePath[r]))
            /\ UNCHANGED readerCalls
    /\ UNCHANGED <<input, filePath, readerResolved, readerOutcome,
                   decoderCalls, decoderOutcome, downloads, downloadOutcome,
                   tempFiles, trustVars, parseVars, callerVars, fnVars, sseVars>>

\* executeC2PANode settles; parseC2PAOutput; return the embedded result or
\* call detectWatermark
ReaderSettle(r) ==
    /\ pc[r] = "reading"
    /\ \E o \in EngineOutcomesFor(input[r].kind) :
        LET out == executeC2PANode(o)
            c2paResult == parseC2PAOutput(out.stdout, out.stderr)
        IN  /\ readerOutcome' = [readerOutcome EXCEPT ![r] = Some(o)]
            /\ readerResolved' = [readerResolved EXCEPT ![r] = TRUE]
            /\ IF out.threw
               THEN /\ CatchReturn(r, out.message)
                    /\ UNCHANGED decoderCalls
               ELSE IF SkipWatermark(c2paResult)
               THEN /\ Return(r, c2paResult)
                    /\ UNCHANGED <<decoderCalls, diagnostics>>
               ELSE /\ decoderCalls' = [decoderCalls EXCEPT ![r] = @ + 1]
                    /\ pc' = [pc EXCEPT ![r] = "decoding"]
                    /\ UNCHANGED <<result, diagnostics>>
    /\ UNCHANGED <<input, filePath, readerCalls, decoderOutcome, downloads,
                   downloadOutcome, tempFiles, trustVars, parseVars, callerVars, fnVars, sseVars>>

\* detectWatermark settles; the watermark result or the not-found result
DecoderSettle(r) ==
    /\ pc[r] = "decoding"
    /\ \E d \in DecoderOutcomesAfter(input[r].kind, Get(readerOutcome[r])) :
        LET trustMarkResult == detectWatermark(d)
        IN  /\ decoderOutcome' = [decoderOutcome EXCEPT ![r] = Some(d)]
            /\ diagnostics' = [diagnostics EXCEPT ![r] =
                    IF ~trustMarkResult.success /\ IsSome(trustMarkResult.error)
                    THEN @ \cup LoggedError(Get(trustMarkResult.error)) ELSE @]
            /\ Return(r, FinalResult(trustMarkResult))
    /\ UNCHANGED <<input, filePath, readerCalls, readerResolved, readerOutcome,
                   decoderCalls, downloads, downloadOutcome, tempFiles,
                   trustVars, parseVars, callerVars, fnVars, sseVars>>

safeDeleteRethrows(u) == IF u = "error" THEN "rejected" ELSE "fulfilled"

\* safeDelete: the catch swallows what fs.unlink throws
safeDelete(u) == "fulfilled"

\* the finally block of readCredentialsFromUrl: await safeDelete(tempPath).
\* A rejection inside the finally replaces the result being returned.
Cleanup(r) ==
    /\ pc[r] = "cleanup"
    /\ \E u \in UnlinkOutcomes :
        /\ tempFiles' = IF u = "ok" THEN tempFiles \ {TempPath(r)} ELSE tempFiles
        /\ IF safeDelete(u) = "rejected"
           THEN /\ pc' = [pc EXCEPT ![r] = "rejected"]
                /\ result' = [result EXCEPT ![r] = None]
           ELSE /\ pc' = [pc EXCEPT ![r] = "done"]
                /\ UNCHANGED result
    /\ UNCHANGED <<input, filePath, readerCalls, readerResolved,
                   readerOutcome, decoderCalls, decoderOutcome, downloads,
                   downloadOutcome, diagnostics, trustVars, parseVars,
                   callerVars, fnVars, sseVars>>

Next ==
    \/ InitializeTrustConfigSettle(PipelineTrustEnvs)
    \/ \E r \in Requests : ReadCredentialsFromFile(r)
    \/ \E r \in Requests : ReadCredentialsFromUrl(r)
    \/ \E r \in Requests : DownloadSettle(r)
    \/ \E r \in Requests : PipelineSettle(r)
    \/ \E r \in Requests : ValidateFilePath(r)
    \/ \E r \in Requests : EnsureFileExistsSettle(r)
    \/ \E r \in Requests : ReaderSettle(r)
    \/ \E r \in Requests : DecoderSettle(r)
    \/ \E r \in Requests : Cleanup(r)

Spec == Init /\ [][Next]_vars

(***************************************************************************)
(* The trust bootstrap under every behaviour of its import, its fetches    *)
(* and its load, with the requests of one caller reading local files       *)
(***************************************************************************)
TrustRequests == {r \in Requests : r = 1}

TrustNext ==
    \/ InitializeTrustConfigSettle(TrustEnvs)
    \/ \E r \in TrustRequests : ReadCredentialsFromFile(r)
    \/ \E r \in TrustRequests : ValidateFilePath(r)
    \/ \E r \in TrustRequests : EnsureFileExistsSettle(r)
    \/ \E r \in TrustRequests : ReaderSettle(r)
    \/ \E r \in TrustRequests : DecoderSettle(r)

SpecTrust == Init /\ [][TrustNext]_vars

(***************************************************************************)
(* The pipeline with a remote that stops sending and a caller that cancels *)
(***************************************************************************)
InFlight(r) == pc[r] \notin {"idle", "done", "rejected"}

\* the remote of the download stops sending, before its response or within
\* the body
RemoteStalls(r) ==
    /\ pc[r] \in {"downloading", "streaming"}
    /\ ~stalled[r]
    /\ stalled' = [stalled EXCEPT ![r] = TRUE]
    /\ UNCHANGED <<reqVars, trustVars, parseVars, cancelled, fnVars, sseVars>>

\* the caller cancels the request in flight; the tool handler takes no
\* cancellation signal and hands none to the service
Cancel(r) ==
    /\ InFlight(r)
    /\ ~cancelled[r]
    /\ cancelled' = [cancelled EXCEPT ![r] = TRUE]
    /\ UNCHANGED <<reqVars, trustVars, parseVars, stalled, fnVars, sseVars>>

CallerNext ==
    \/ Next
    \/ \E r \in Requests : RemoteStalls(r)
    \/ \E r \in Requests : Cancel(r)

SpecCaller == Init /\ [][CallerNext]_vars

(***************************************************************************)
(* parseC2PAOutput as a function of arbitrary reader output                *)
(***************************************************************************)
LowerNoClaimFound ==
    <<"n", "o", " ", "c", "l", "a", "i", "m", " ", "f", "o", "u", "n", "d">>

OutputPrefixes == {<<>>, <<" ">>, <<"x", " ">>}
OutputSuffixes == {<<>>, <<"\n">>, <<" ", "y">>}
OutputCores ==
    {<<>>, NoClaimFound, NoManifestFound, ClaimFound, LowerNoClaimFound}
    \cup {JsonStringify(m) : m \in Manifests}

StdoutTexts ==
    {a \o b \o c : a \in OutputPrefixes, b \in OutputCores, c \in OutputSuffixes}
StderrTexts ==
    {<<>>, NoManifestFound, <<"w", "a", "r", "n">>, <<"x", " ">> \o NoClaimFound}

ParseInit ==
    /\ trustConfigPromise = "pending"
    /\ trustConfigObj = None
    /\ trustEnv = None
    /\ trustFetches = 1
    /\ RequestInit
    /\ SseIdle
    /\ parseIn \in [stdout : StdoutTexts, stderr : StderrTexts]
    /\ parseOut = None
    /\ fnIn = NoCall
    /\ fnOut = None

ParseC2PAOutput ==
    /\ parseOut = None
    /\ parseOut' = Some(parseC2PAOutput(parseIn.stdout, parseIn.stderr))
    /\ UNCHANGED <<parseIn, reqVars, trustVars, callerVars, fnVars, sseVars>>

ParseNext == ParseC2PAOutput

SpecParse == ParseInit /\ [][ParseNext]_vars

(***************************************************************************)
(* Vocabulary of the properties                                            *)
(***************************************************************************)
\* p occurs in s as a contiguous, case-sensitive run of characters
OccursIn(s, p) ==
    \E i \in 0..(Len(s) - Len(p)) : \A k \in 1..Len(p) : s[i + k] = p[k]

MentionsSentinel(s) == OccursIn(s, NoClaimFound) \/ OccursIn(s, NoManifestFound)

\* the request has come back to its caller
Returned2Caller(r) == pc[r] = "done" /\ IsSome(result[r])

\* what executeC2PANode handed to the orchestrator in request r
AdapterOutput(r) == executeC2PANode(Get(readerOutcome[r]))

\* the embedded check of request r classified the reader output as found
EmbeddedFound(r) ==
    /\ IsSome(readerOutcome[r])
    /\ ~AdapterOutput(r).threw
    /\ parseC2PAOutput(AdapterOutput(r).stdout, AdapterOutput(r).stderr).hasCredentials

\* the reader adapter of request r returned output carrying a sentinel
SentinelReported(r) ==
    /\ IsSome(readerOutcome[r])
    /\ ~AdapterOutput(r).threw
    /\ \/ MentionsSentinel(AdapterOutput(r).stdout)
       \/ MentionsSentinel(AdapterOutput(r).stderr)

IsFailure(res) == ~res.success
IsNotFound(res) == res.success /\ ~res.hasCredentials

C2_SentinelDecodesOnce ==
    \A r \in Requests :
        /\ SentinelReported(r) => decoderCalls[r] = 1
        /\ decoderCalls[r] <= 1

C2_Witness ==
    \E r \in Requests :
        /\ Returned2Caller(r) /\ SentinelReported(r)
        /\ Get(readerOutcome[r]).kind = "manifest"
        /\ decoderCalls[r] = 1

C4_Exclusive ==
    \A r \in Requests :
        IsSome(result[r]) =>
            /\ ~(IsSome(Get(result[r]).manifest) /\ IsSome(Get(result[r]).trustMarkData))
            /\ EmbeddedFound(r) =>
                  /\ IsSome(Get(result[r]).manifest)
                  /\ Get(result[r]).trustMarkData = None
            /\ IsSome(Get(result[r]).trustMarkData) => ~EmbeddedFound(r)

C4_NoOverwrite ==
    \A r \in Requests : IsSome(result[r]) => result'[r] = result[r]

BadPath(path) ==
    \/ path = <<>>
    \/ \A i \in 1..Len(path) : path[i] \in Whitespace
    \/ \E i \in 1..Len(path) : path[i] = NUL
    \/ path \notin ExistingFiles

BadUrl(u) == ~u.parses \/ u.protocol \notin {"http:", "https:"}

InputError(r) ==
    \/ input[r].kind = "file" /\ BadPath(input[r].text)
    \/ input[r].kind = "url" /\ BadUrl(input[r])

C5_InputErrorShortCircuits ==
    \A r \in Requests :
        InputError(r) =>
            /\ readerCalls[r] = 0 /\ decoderCalls[r] = 0 /\ downloads[r] = 0
            /\ pc[r] \notin {"downloading", "reading", "decoding"}
            /\ pc[r] = "done" =>
                  /\ IsSome(result[r])
                  /\ IsFailure(Get(result[r]))
                  /\ IsSome(Get(result[r]).error)
                  /\ Get(Get(result[r]).error) # <<>>
                  /\ Get(result[r]) # NotFoundResult

C5_Witness ==
    \E r, q \in Requests :
        /\ pc[r] = "done" /\ input[r].kind = "file" /\ input[r].text = MissingPath
        /\ pc[q] = "done" /\ input[q].kind = "url" /\ BadUrl(input[q])

(***************************************************************************)
(* C6: a reader that throws with a no-manifest sentinel in its message     *)
(* makes the embedded stage Empty, so the watermark check runs and the     *)
(* request does not fail; a reader that throws anything else makes the     *)
(* request fail.                                                           *)
(***************************************************************************)
ReaderThrew(r) ==
    IsSome(readerOutcome[r]) /\ Get(readerOutcome[r]).kind = "throwError"

C6_SentinelThrowIsEmpty ==
    \A r \in Requests :
        Returned2Caller(r) /\ ReaderThrew(r) =>
            IF MentionsSentinel(Get(readerOutcome[r]).message)
            THEN decoderCalls[r] = 1 /\ ~IsFailure(Get(result[r]))
            ELSE IsFailure(Get(result[r]))

DecoderFailed(d) ==
    d.kind \in {"enoent", "execError", "malformed"}
    \/ (d.kind = "reply" /\ ~d.reply.success)

ChannelsMentionSentinel ==
    MentionsSentinel(parseIn.stdout) \/ MentionsSentinel(parseIn.stderr)

HasContent(s) == \E i \in 1..Len(s) : s[i] \notin Whitespace

EmptyManifestRead(r) ==
    readerOutcome[r] = Some(EngineOutcome("manifest", <<>>, EmptyManifest))

C10_EmptyManifestIsFound ==
    \A r \in Requests :
        EmptyManifestRead(r) =>
            /\ decoderCalls[r] = 0
            /\ IsSome(result[r])
            /\ Get(result[r]).success /\ Get(result[r]).hasCredentials
            /\ Get(result[r]).manifest = Some(EmptyManifest)

C10_Witness ==
    \E r \in Requests :
        /\ Returned2Caller(r) /\ EmptyManifestRead(r)
        /\ Get(result[r]).hasCredentials

(***************************************************************************)
(* C11: whenever a request has passed the await of the trust bootstrap     *)
(* (it checks the file, reads or decodes, or has invoked the reader), the  *)
(* bootstrap has been started and has settled, fulfilled or rejected; the  *)
(* reader is never invoked while the bootstrap is pending.                 *)
(***************************************************************************)
PastBootstrapAwait(r) ==
    \/ readerCalls[r] > 0
    \/ pc[r] \in {"checkingFile", "reading", "decoding"}

C11_ReaderAfterBootstrap ==
    \A r \in Requests :
        PastBootstrapAwait(r) =>
            /\ trustFetches >= 1
            /\ trustConfigPromise \in {"fulfilled", "rejected"}

C11_Witness ==
    \E r \in Requests :
        /\ readerCalls[r] = 1
        /\ pc[r] = "reading"
        /\ trustConfigPromise = "rejected"

(***************************************************************************)
(* C12: initializeTrustConfig runs once in the process: the count of its   *)
(* invocations stays 1 however many requests await it, and once the        *)
(* attempt has settled, fulfilled or rejected, its outcome is never        *)
(* replaced by that of another attempt.                                    *)
(***************************************************************************)
C12_OneAttempt == trustFetches = 1

C12_SettledStays ==
    trustConfigPromise # "pending" =>
        UNCHANGED <<trustConfigPromise, trustConfigObj, trustEnv, trustFetches>>

C12_BootstrapOnce == [](C12_OneAttempt) /\ [][C12_SettledStays]_vars

C12_Witness ==
    \E r1, r2 \in Requests :
        /\ r1 # r2
        /\ readerCalls[r1] = 1 /\ readerCalls[r2] = 1
        /\ trustConfigPromise = "rejected"
        /\ trustFetches = 1

(***************************************************************************)
(* C13: when the trust bootstrap has failed with an exception (the import  *)
(* of the engine or the load of the configuration threw), no configuration *)
(* is loaded and no request is blocked or rejected: a request awaiting the *)
(* bootstrap can resume, and every request that has returned on a valid,   *)
(* existing file has invoked the reader once and carries a result.         *)
(***************************************************************************)
BootstrapFailed == trustConfigPromise = "rejected"

FetchesAnswer(env) ==
    /\ env.anchors \in {"ok", "empty", "fail"}
    /\ env.allowedList \in {"ok", "empty", "fail"}
    /\ env.config \in {"ok", "empty", "fail"}

Downloading(r) == pc[r] \in {"downloading", "streaming"}

C15_StalledDownloadTimesOut ==
    \A r \in Requests :
        stalled[r] =>
            /\ Downloading(r) => ENABLED (DownloadSettle(r) \/ PipelineSettle(r))
            /\ pc[r] = "done" =>
                  result[r] = Some(FailureResult(
                      DownloadTimeoutError(input[r].text, DOWNLOAD_TIMEOUT_MS)))

(***************************************************************************)
(* C16: the trust bootstrap always settles, also when a trust-list         *)
(* endpoint never answers: while its promise is pending the attempt can    *)
(* still end, so a request awaiting the bootstrap can always go on towards *)
(* its result.                                                             *)
(***************************************************************************)
C16_BootstrapAlwaysSettles ==
    /\ trustConfigPromise = "pending" =>
          ENABLED InitializeTrustConfigSettle(TrustEnvs)
    /\ \A r \in Requests :
          pc[r] = "awaitTrust" =>
              ENABLED (InitializeTrustConfigSettle(TrustEnvs) \/ ValidateFilePath(r))

(***************************************************************************)
(* C17: once readCredentialsFromUrl has returned, the temporary file of    *)
(* the request is not on disk, whatever the outcome of the request.        *)
(***************************************************************************)
C17_NoTempFileLeft ==
    \A r \in Requests :
        (input[r].kind = "url" /\ pc[r] = "done") => TempPath(r) \notin tempFiles

(***************************************************************************)
(* C18: no request ever ends in a rejection; every request that has        *)
(* returned carries a result, and when an error arose in it (invalid or    *)
(* missing input, failed download, reader that threw) the result has       *)
(* success=false, no credentials and a non-empty error message, and is     *)
(* presented as an error.                                                  *)
(***************************************************************************)
DownloadFailed(r) ==
    IsSome(downloadOutcome[r]) /\ Get(downloadOutcome[r]) # "ok"

ReaderFailed(r) ==
    IsSome(readerOutcome[r])
        /\ Get(readerOutcome[r]).kind \in {"throwError", "throwNonError"}

ErrorArose(r) == InputError(r) \/ DownloadFailed(r) \/ ReaderFailed(r)

AloneFromFile(r, path, temps) ==
    IF IsSome(validateFilePath(path))
    THEN Some(FailureResult(Get(validateFilePath(path))))
    ELSE IF ~fileExists(path, temps)
    THEN Some(FailureResult(FileNotFoundError(path)))
    ELSE IF readerOutcome[r] = None THEN None
    ELSE LET out == executeC2PANode(Get(readerOutcome[r]))
             c2paResult == parseC2PAOutput(out.stdout, out.stderr)
         IN  IF out.threw THEN Some(FailureResult(out.message))
             ELSE IF c2paResult.hasCredentials THEN Some(c2paResult)
             ELSE IF decoderOutcome[r] = None THEN None
             ELSE Some(FinalResult(detectWatermark(Get(decoderOutcome[r]))))

AloneFromUrl(r) ==
    IF IsSome(validateUrl(input[r]))
    THEN Some(FailureResult(Get(validateUrl(input[r]))))
    ELSE IF downloadOutcome[r] = None THEN None
    ELSE IF Get(downloadOutcome[r]) = "timeout"
    THEN Some(FailureResult(
             DownloadTimeoutError(input[r].text, DOWNLOAD_TIMEOUT_MS)))
    ELSE IF Get(downloadOutcome[r]) # "ok"
    THEN Some(FailureResult(DownloadError(input[r].text)))
    ELSE AloneFromFile(r, TempPath(r), {TempPath(r)})

Alone(r) ==
    IF input[r].kind = "url" THEN AloneFromUrl(r)
    ELSE AloneFromFile(r, input[r].text, {})

C19_ResultAsIfAlone ==
    \A r \in Requests :
        pc[r] = "done" => IsSome(result[r]) /\ result[r] = Alone(r)

C19_Witness ==
    \E r1, r2 \in Requests :
        /\ r1 # r2
        /\ input[r1].kind = "url" /\ input[r2].kind = "url"
        /\ downloadOutcome[r1] = Some("ok") /\ downloadOutcome[r2] = Some("ok")
        /\ pc[r1] = "done" /\ pc[r2] = "done"
        /\ Get(result[r1]).hasCredentials
        /\ Get(result[r2]) = NotFoundResult
        /\ TempPath(r1) \notin tempFiles

(***************************************************************************)
(* C20: once the caller has cancelled a request, no step of that request   *)
(* invokes the reader or the decoder or takes the outcome of a call in     *)
(* flight, and no result carrying manifest or watermark data is returned   *)
(* for it.                                                                 *)
(***************************************************************************)
C20_CancelledStops ==
    \A r \in Requests :
        cancelled[r] =>
            /\ readerCalls'[r] = readerCalls[r]
            /\ decoderCalls'[r] = decoderCalls[r]
            /\ readerOutcome'[r] = readerOutcome[r]
            /\ decoderOutcome'[r] = decoderOutcome[r]
            /\ result'[r] # result[r] =>
                  /\ IsSome(result'[r])
                  /\ Get(result'[r]).manifest = None
                  /\ Get(result'[r]).trustMarkData = None

C20_CancellationAborts == [][C20_CancelledStops]_vars

(***************************************************************************)
(* Functions applied outside a request                                     *)
(***************************************************************************)
\* the state in which one function is about to be applied to one argument
FnInit(calls) ==
    /\ trustConfigPromise = "pending"
    /\ trustConfigObj = None
    /\ trustEnv = None
    /\ trustFetches = 1
    /\ RequestInit
    /\ SseIdle
    /\ parseIn = NoParseInput
    /\ parseOut = None
    /\ fnIn \in calls
    /\ fnOut = None

Call(fn, arg) == [fn |-> fn, arg |-> arg]

\* the function returns
FnReturn(value) ==
    /\ fnOut = None
    /\ fnOut' = Some(value)
    /\ UNCHANGED <<fnIn, reqVars, trustVars, parseVars, callerVars, sseVars>>

(***************************************************************************)
(* The watermark stage for every run of the decoder                        *)
(***************************************************************************)
StartsWith(s, prefix) ==
    Len(s) >= Len(prefix) /\ SubSeq(s, 1, Len(prefix)) = prefix

HexChars ==
    {"0", "1", "2", "3", "4", "5", "6", "7", "8", "9",
     "a", "b", "c", "d", "e", "f", "A", "B", "C", "D", "E", "F"}

\* parseTrustMarkIdentifier: 'url' for the two web prefixes, 'hash' for 32
\* or more hex digits, 'identifier' otherwise
parseTrustMarkIdentifier(identifier) ==
    IF \/ StartsWith(identifier, <<"h", "t", "t", "p", ":", "/", "/">>)
       \/ StartsWith(identifier, <<"h", "t", "t", "p", "s", ":", "/", "/">>)
    THEN [type |-> "url", value |-> identifier]
    ELSE IF /\ identifier # <<>>
            /\ \A i \in 1..Len(identifier) : identifier[i] \in HexChars
            /\ Len(identifier) >= 32
    THEN [type |-> "hash", value |-> identifier]
    ELSE [type |-> "identifier", value |-> identifier]

HttpsIdentifier == <<"h", "t", "t", "p", "s", ":", "/", "/", "h", "/", "m">>
HttpIdentifier == <<"h", "t", "t", "p", ":", "/", "/", "h", "/", "m">>
RegistryIdentifier ==
    <<"r", "e", "g", "i", "s", "t", "r", "y", ":", "/", "/",
      "a", "b", "c", "1", "2", "3">>
HashIdentifier == [i \in 1..40 |-> IF i % 2 = 0 THEN "a" ELSE "1"]
ShortIdentifier == <<"a", "b", "c", "1">>
BrokenUrlIdentifier == <<"h", "t", "t", "p", "s", ":", "/", "/", "h", " ", "m">>

Identifiers ==
    {HttpsIdentifier, HttpIdentifier, RegistryIdentifier, HashIdentifier,
     ShortIdentifier, BrokenUrlIdentifier}

\* the payload the decoder script prints for an identifier: manifestUrl is
\* the identifier when it is of type 'url', null otherwise
WatermarkPayload(identifier) ==
    [identifier |-> identifier, schema |-> "BCH_5", raw |-> <<"0101">>,
     manifestUrl |-> IF parseTrustMarkIdentifier(identifier).type = "url"
                     THEN Some(identifier) ELSE None]

WatermarkPayloads == { WatermarkPayload(i) : i \in Identifiers }

StderrNoise == <<"UserWarning: torch not compiled with CUDA">>

DecoderRuns ==
    { DecoderRun(k, NoReply, e) :
        k \in {"enoent", "execError", "malformed", "notObject"},
        e \in {<<>>, StderrNoise} }
    \cup { DecoderRun("reply", Reply(s, h, w, m), e) :
            s \in BOOLEAN, h \in BOOLEAN,
            w \in {None} \cup { Some(p) : p \in WatermarkPayloads },
            m \in {None, Some(DecoderErrorText)},
            e \in {<<>>, StderrNoise} }

DecodeInit == FnInit({ Call("detectWatermark", d) : d \in DecoderRuns })

\* detectWatermark and the result readCredentialsFromFile builds from it
DecodeStage ==
    /\ fnIn.fn = "detectWatermark"
    /\ FnReturn([trustMark |-> detectWatermark(fnIn.arg),
                 result |-> FinalResult(detectWatermark(fnIn.arg))])

SpecDecode == DecodeInit /\ [][DecodeStage]_vars

Decoded == fnIn.fn = "detectWatermark" /\ IsSome(fnOut)

Quiet(d) == DecoderRun(d.kind, d.reply, <<>>)

SchemeChars ==
    {"a", "b", "c", "d", "e", "f", "g", "h", "i", "j", "k", "l", "m", "n",
     "o", "p", "q", "r", "s", "t", "u", "v", "w", "x", "y", "z",
     "0", "1", "2", "3", "4", "5", "6", "7", "8", "9", "+", "-", "."}

\* the text parses as an absolute URL: a scheme, "://", and a non-empty
\* authority in which no space occurs
IsAbsoluteUrl(s) ==
    \E i \in 2..Len(s) :
        /\ \A k \in 1..(i - 1) : s[k] \in SchemeChars
        /\ s[1] \notin {"0", "1", "2", "3", "4", "5", "6", "7", "8", "9", "+", "-", "."}
        /\ Len(s) >= i + 3
        /\ SubSeq(s, i, i + 2) = <<":", "/", "/">>
        /\ s[i + 3] # "/"
        /\ \A k \in (i + 3)..Len(s) : s[k] # " "

IsWebAddress(s) ==
    \/ StartsWith(s, <<"h", "t", "t", "p", ":", "/", "/">>)
    \/ StartsWith(s, <<"h", "t", "t", "p", "s", ":", "/", "/">>)

ReturnedPayload == Get(Get(fnOut).result.trustMarkData)

WatermarkReturned ==
    /\ Decoded
    /\ Get(fnOut).result.hasCredentials
    /\ IsSome(Get(fnOut).result.trustMarkData)

JUndefined == [undefined |-> TRUE]
JNull == [null |-> TRUE]
JNum(n) == [number |-> n]
JStr(s) == [string |-> s]
JArr(q) == [array |-> q]
\* an object: a function from its keys to their values
JObj(f) == [object |-> f]
EmptyObj == JObj(<<>>)

\* typeof x === 'string'
IsString(x) == DOMAIN x = {"string"}
\* Array.isArray(x)
IsArray(x) == DOMAIN x = {"array"}
\* x && typeof x === 'object'
IsObject(x) == DOMAIN x = {"object"} \/ DOMAIN x = {"array"}
\* the truthiness of a value
Truthy(x) ==
    CASE IsString(x) -> x.string # ""
      [] DOMAIN x = {"number"} -> x.number # 0
      [] IsObject(x) -> TRUE
      [] OTHER -> FALSE
\* x[key] of a value cast to Record<string, unknown>
Field(x, key) ==
    IF DOMAIN x = {"object"} /\ key \in DOMAIN x.object THEN x.object[key]
    ELSE JUndefined
\* a || b
OrElse(a, b) == IF Truthy(a) THEN a ELSE b
\* the string of a value known to be a string, as an optional field
StringField(x) == IF IsString(x) THEN Some(x.string) ELSE None

RECURSIVE FlatMap(_, _)
\* the concatenation of Op(q[k]) for the elements of q in order
FlatMap(Op(_), q) ==
    IF q = <<>> THEN <<>>
    ELSE IF Len(q) = 1 THEN Op(q[1])
    ELSE FlatMap(Op, SubSeq(q, 1, Len(q) \div 2))
         \o FlatMap(Op, SubSeq(q, Len(q) \div 2 + 1, Len(q)))

(***************************************************************************)
(* manifest-parser: the structured strategy                                *)
(***************************************************************************)
ContentAction(action, softwareAgent, when, parameters) ==
    [action |-> action, softwareAgent |-> softwareAgent, when |-> when,
     parameters |-> parameters]

\* the body of the inner loop of parseActions for one element of
\* data.actions: the actions it pushes
ActionOfItem(item) ==
    IF IsObject(item) /\ IsString(Field(item, "action"))
       /\ Field(item, "action").string # ""
    THEN <<ContentAction(Field(item, "action").string,
                         StringField(Field(item, "softwareAgent")),
                         StringField(Field(item, "when")),
                         IF Truthy(Field(item, "parameters"))
                            /\ IsObject(Field(item, "parameters"))
                         THEN Some(Field(item, "parameters")) ELSE None)>>
    ELSE <<>>

\* the body of the outer loop of parseActions for one assertion
ActionsOfAssertion(assertion) ==
    IF /\ IsObject(assertion)
       /\ Field(assertion, "label") = JStr("c2pa.actions.v2")
       /\ Truthy(Field(assertion, "data")) /\ IsObject(Field(assertion, "data"))
       /\ IsArray(Field(Field(assertion, "data"), "actions"))
    THEN FlatMap(ActionOfItem, Field(Field(assertion, "data"), "actions").array)
    ELSE <<>>

RECURSIVE Reverse(_)
Reverse(q) == IF q = <<>> THEN <<>> ELSE Reverse(Tail(q)) \o <<Head(q)>>

\* a parseActions that puts each action in front of the ones found before
parseActionsUnshift(manifest) ==
    IF IsArray(Field(manifest, "assertions"))
    THEN Reverse(FlatMap(ActionsOfAssertion, Field(manifest, "assertions").array))
    ELSE <<>>

\* parseActions: the actions of the c2pa.actions.v2 assertions
parseActions(manifest) ==
    IF IsArray(Field(manifest, "assertions"))
    THEN FlatMap(ActionsOfAssertion, Field(manifest, "assertions").array)
    ELSE <<>>

WhoThisComesFrom(linkedInIdentity, otherIdentities) ==
    [linkedInIdentity |-> linkedInIdentity, otherIdentities |-> otherIdentities]

CreatorIdentity(name, identifier) == [name |-> name, identifier |-> identifier]

\* the body of the loop of parseCreatorInfo for one generator
IdentityOfGenerator(gen) ==
    IF IsObject(gen) /\ IsString(Field(gen, "name")) /\ Field(gen, "name").string # ""
    THEN <<CreatorIdentity(Field(gen, "name").string,
              IF IsString(Field(gen, "version")) /\ Field(gen, "version").string # ""
              THEN Some(<<"v", Field(gen, "version").string>>) ELSE None)>>
    ELSE <<>>

\* parseCreatorInfo: WhoThisComesFrom from claim_generator_info
parseCreatorInfo(manifest) ==
    LET claimGenInfo == Field(manifest, "claim_generator_info")
        identities == FlatMap(IdentityOfGenerator, claimGenInfo.array)
    IN  IF ~IsArray(claimGenInfo) \/ claimGenInfo.array = <<>> THEN None
        ELSE IF identities # <<>>
        THEN Some(WhoThisComesFrom(None, Some(identities))) ELSE None

Credentials(claimSigner, signedBy, timestamp) ==
    [claimSigner |-> claimSigner, signedBy |-> signedBy, timestamp |-> timestamp]

\* Object.keys(result).length > 0 for an object of optional fields
HasKeys(rec) == \E k \in DOMAIN rec : IsSome(rec[k])

\* a parseSignatureInfo that copies the issuer whatever the signer is
parseSignatureInfoBoth(manifest) ==
    LET sig == OrElse(Field(manifest, "signature_info"), Field(manifest, "signature"))
    IN  IF ~IsObject(sig) THEN None
        ELSE Some(Credentials(StringField(Field(sig, "common_name")),
                              StringField(Field(sig, "issuer")),
                              StringField(Field(sig, "time"))))

\* a parseSignatureInfo that returns the object it built even when empty
parseSignatureInfoKeepsEmpty(manifest) ==
    LET sig == OrElse(Field(manifest, "signature_info"), Field(manifest, "signature"))
    IN  IF ~IsObject(sig) THEN None
        ELSE Some(Credentials(StringField(Field(sig, "common_name")),
                              IF StringField(Field(sig, "common_name")) = None
                              THEN StringField(Field(sig, "issuer")) ELSE None,
                              StringField(Field(sig, "time"))))

\* parseSignatureInfo: claimSigner from common_name, signedBy from issuer
\* when claimSigner is falsy, timestamp from time
parseSignatureInfo(manifest) ==
    LET sig == OrElse(Field(manifest, "signature_info"), Field(manifest, "signature"))
        claimSigner == StringField(Field(sig, "common_name"))
        signedBy == IF IsString(Field(sig, "issuer"))
                       /\ (claimSigner = None \/ claimSigner = Some(""))
                    THEN Some(Field(sig, "issuer").string) ELSE None
        built == Credentials(claimSigner, signedBy, StringField(Field(sig, "time")))
    IN  IF ~IsObject(sig) THEN None
        ELSE IF HasKeys(built) THEN Some(built) ELSE None

Certificate(issuer, subject, serialNumber, validFrom) ==
    [issuer |-> issuer, subject |-> subject, serialNumber |-> serialNumber,
     validFrom |-> validFrom]

ValidationInfo(certificate, trustInfo) ==
    [certificate |-> certificate, trustInfo |-> trustInfo]

\* the body of the loop over validation_status for one status
ExplanationOfStatus(status) ==
    IF IsObject(status) /\ IsString(Field(status, "explanation"))
    THEN <<Field(status, "explanation").string>> ELSE <<>>

\* parseValidationResults: the certificate of the signature and the
\* explanations of validation_status
parseValidationResults(root, manifest) ==
    LET sig == OrElse(Field(manifest, "signature_info"), Field(manifest, "signature"))
        cert == Certificate(StringField(Field(sig, "issuer")),
                            StringField(Field(sig, "common_name")),
                            StringField(Field(sig, "cert_serial_number")),
                            StringField(Field(sig, "time")))
        validationStatus == Field(root, "validation_status")
        trustInfo == IF IsArray(validationStatus)
                     THEN FlatMap(ExplanationOfStatus, validationStatus.array)
                     ELSE <<>>
        validationInfo ==
            ValidationInfo(IF IsObject(sig) /\ HasKeys(cert) THEN Some(cert) ELSE None,
                           IF trustInfo # <<>> THEN Some(trustInfo) ELSE None)
    IN  IF HasKeys(validationInfo) THEN Some(validationInfo) ELSE None

AboutThisContent(actions, genAIInfo) == [actions |-> actions, genAIInfo |-> genAIInfo]

ParsedManifestData(who, content, credentials, validation) ==
    [whoThisComesFrom |-> who, aboutThisContent |-> content,
     aboutTheseCredentials |-> credentials, validationInfo |-> validation]

\* { rawManifest } alone
OnlyRawManifest == ParsedManifestData(None, None, None, None)

\* parseManifestJson: the sections of the active manifest
parseManifestJson(root) ==
    LET activeId == OrElse(Field(root, "active_manifest"), Field(root, "activeManifest"))
        manifests == Field(root, "manifests")
        manifest == Field(manifests, activeId.string)
    IN  IF ~IsObject(root) THEN OnlyRawManifest
        ELSE IF ~Truthy(activeId) \/ ~IsString(activeId) THEN OnlyRawManifest
        ELSE IF ~IsObject(manifests) THEN OnlyRawManifest
        ELSE IF ~IsObject(manifest) THEN OnlyRawManifest
        ELSE ParsedManifestData(
                parseCreatorInfo(manifest),
                IF parseActions(manifest) # <<>>
                THEN Some(AboutThisContent(Some(parseActions(manifest)), None))
                ELSE None,
                parseSignatureInfo(manifest),
                parseValidationResults(root, manifest))

(***************************************************************************)
(* Texts and the regular expressions of the text parsers                   *)
(***************************************************************************)
LowerOf ==
    [A |-> "a", B |-> "b", C |-> "c", D |-> "d", E |-> "e", F |-> "f",
     G |-> "g", H |-> "h", I |-> "i", J |-> "j", K |-> "k", L |-> "l",
     M |-> "m", N |-> "n", O |-> "o", P |-> "p", Q |-> "q", R |-> "r",
     S |-> "s", T |-> "t", U |-> "u", V |-> "v", W |-> "w", X |-> "x",
     Y |-> "y", Z |-> "z"]

\* the character under the flag i
Lower(c) == IF c \in DOMAIN LowerOf THEN LowerOf[c] ELSE c

Letters == { LowerOf[c] : c \in DOMAIN LowerOf }
Digits == {"0", "1", "2", "3", "4", "5", "6", "7", "8", "9"}

\* the character classes of the expressions
InClass(c, cls) ==
    CASE cls = "sep" -> c \in Whitespace \cup {":"}          \* [:\s]
      [] cls = "line" -> c # "\n"                            \* [^\n]
      [] cls = "any" -> TRUE                                 \* [\s\S]
      [] cls = "digit" -> c \in Digits                       \* \d
      [] cls = "word" -> Lower(c) \in Letters \cup Digits \cup {"_", "-"}   \* [\w-]
      [] cls = "handle" -> Lower(c) \in Letters \cup Digits \cup {"_", "-", "."}  \* [\w.-]
      [] cls = "name" -> Lower(c) \in Letters \cup {"."}     \* [a-z.]
      [] cls = "nonspace" -> c \notin Whitespace             \* [^\s]
      [] cls = "dot" -> c # "\n"                \* .
      [] cls = "sign" -> c \in {"+", "-"}                     \* [+-]

\* the nodes of an expression
\* a literal under the flag i, written in lower case
Lit(w) == [op |-> "lit", w |-> w]
\* a literal matched without the flag i
Exact(w) == [op |-> "exact", w |-> w]
Rep(cls, min, max) == [op |-> "rep", cls |-> cls, min |-> min, max |-> max]
Cat(parts) == [op |-> "cat", parts |-> parts]
Alt(parts) == [op |-> "alt", parts |-> parts]
Opt(re) == [op |-> "opt", re |-> re]
Group(n, re) == [op |-> "group", n |-> n, re |-> re]

Unbounded == 1000000
Plus(cls) == Rep(cls, 1, Unbounded)
Star(cls) == Rep(cls, 0, Unbounded)

NoCaps == [n \in 1..2 |-> <<>>]
Matched(end, caps) == [end |-> end, caps |-> caps]
MergeCaps(a, b) == [n \in 1..2 |-> IF b[n] # <<>> THEN b[n] ELSE a[n]]

\* how many characters from position i on are in the class, up to max
RunLen(s, i, cls, max) ==
    LET limit == IF Len(s) - i + 1 < max THEN Len(s) - i + 1 ELSE max
        stops == { n \in 0..(limit - 1) : ~InClass(s[i + n], cls) }
    IN  IF stops = {} THEN (IF limit < 0 THEN 0 ELSE limit)
        ELSE CHOOSE n \in stops : \A m \in stops : n <= m

LitAt(s, i, w) ==
    /\ i + Len(w) - 1 <= Len(s)
    /\ \A k \in 1..Len(w) : Lower(s[i + k - 1]) = w[k]

RECURSIVE Run(_, _, _)
RECURSIVE RunCat(_, _, _)
\* the ways the expression matches at position i, in the order in which a
\* backtracking matcher tries them: each is the position after the match
\* and the groups captured
Run(re, s, i) ==
    CASE re.op = "lit" ->
            IF LitAt(s, i, re.w) THEN <<Matched(i + Len(re.w), NoCaps)>> ELSE <<>>
      [] re.op = "exact" ->
            IF i + Len(re.w) - 1 <= Len(s) /\ SubSeq(s, i, i + Len(re.w) - 1) = re.w
            THEN <<Matched(i + Len(re.w), NoCaps)>> ELSE <<>>
      [] re.op = "rep" ->
            LET n == RunLen(s, i, re.cls, re.max)
            IN  IF n < re.min THEN <<>>
                ELSE [k \in 1..(n - re.min + 1) |-> Matched(i + n - k + 1, NoCaps)]
      [] re.op = "cat" -> RunCat(re.parts, s, i)
      [] re.op = "alt" -> FlatMap(LAMBDA part : Run(part, s, i), re.parts)
      [] re.op = "opt" -> Run(re.re, s, i) \o <<Matched(i, NoCaps)>>
      [] re.op = "group" ->
            LET inner == Run(re.re, s, i)
            IN  [k \in 1..Len(inner) |->
                    Matched(inner[k].end,
                            [inner[k].caps EXCEPT ![re.n] = <<i, inner[k].end - 1>>])]

RunCat(parts, s, i) ==
    IF parts = <<>> THEN <<Matched(i, NoCaps)>>
    ELSE FlatMap(LAMBDA first :
                    LET rest == RunCat(Tail(parts), s, first.end)
                    IN  [k \in 1..Len(rest) |->
                            Matched(rest[k].end, MergeCaps(first.caps, rest[k].caps))],
                 Run(Head(parts), s, i))

NoMatch == [found |-> FALSE, from |-> 0, end |-> 0, caps |-> NoCaps]

\* the least element of a set of positions, 0 for the empty set
FirstOf(positions) ==
    IF positions = {} THEN 0
    ELSE CHOOSE k \in positions : \A m \in positions : k <= m

\* the match that begins at position from with the first way the matcher
\* finds; position 0 stands for no match
MatchAt(from, ways) ==
    IF from = 0 THEN NoMatch
    ELSE [found |-> TRUE, from |-> from, end |-> ways[1].end, caps |-> ways[1].caps]

WaysAt(re, s, from) == IF from = 0 THEN <<>> ELSE Run(re, s, from)

FirstMatchAt(re, s, from) == MatchAt(from, WaysAt(re, s, from))

\* the first match at or after position i
SearchFrom(re, s, i) ==
    FirstMatchAt(re, s, FirstOf({ k \in i..(Len(s) + 1) : Run(re, s, k) # <<>> }))

\* text.match(re)
Match(re, s) == SearchFrom(re, s, 1)

RECURSIVE MatchAllFrom(_, _, _)
RECURSIVE MatchAllAfter(_, _, _)
\* the match m and the matches after it: the search goes on after the
\* match, one character further when the match is empty
MatchAllAfter(re, s, m) ==
    IF ~m.found THEN <<>>
    ELSE <<m>> \o MatchAllFrom(re, s, IF m.end > m.from THEN m.end ELSE m.end + 1)

MatchAllFrom(re, s, i) == MatchAllAfter(re, s, SearchFrom(re, s, i))

\* text.matchAll(re) for an expression with the flag g
MatchAll(re, s) == MatchAllFrom(re, s, 1)

\* match[n] of a match: the text of the group, undefined when the match
\* failed or the group took no part
GroupText(s, m, n) ==
    IF m.found /\ m.caps[n] # <<>>
    THEN Some(SubSeq(s, m.caps[n][1], m.caps[n][2])) ELSE None

\* (?:a|b|...)[:\s]+([^\n]+) with the flag i
LabelValue(labels) ==
    Cat(<<Alt(labels), Plus("sep"), Group(1, Plus("line"))>>)


(***************************************************************************)
(* credentials-parser                                                      *)
(***************************************************************************)
\* /(?:claim.?signer|signer)[:\s]+([^\n]+)/i
SignerRe ==
    LabelValue(<<Cat(<<Lit(<<"c", "l", "a", "i", "m">>), Opt(Rep("dot", 1, 1)), Lit(<<"s", "i", "g", "n", "e", "r">>)>>), Lit(<<"s", "i", "g", "n", "e", "r">>)>>)

\* /signed by[:\s]+([^\n]+)/i
SignedByRe == LabelValue(<<Lit(<<"s", "i", "g", "n", "e", "d", " ", "b", "y">>)>>)

\* (?:Z|[+-]\d{2}:\d{2})?
ZoneRe ==
    Opt(Alt(<<Lit(<<"z">>), Cat(<<Rep("sign", 1, 1), Rep("digit", 2, 2), Lit(<<":">>),
                           Rep("digit", 2, 2)>>)>>))

\* /(?:timestamp|time|date|signed.?at)[:\s]+([^\n]+(?:Z|[+-]\d{2}:\d{2})?)/i
TimestampRe ==
    Cat(<<Alt(<<Lit(<<"t", "i", "m", "e", "s", "t", "a", "m", "p">>), Lit(<<"t", "i", "m", "e">>), Lit(<<"d", "a", "t", "e">>),
                Cat(<<Lit(<<"s", "i", "g", "n", "e", "d">>), Opt(Rep("dot", 1, 1)), Lit(<<"a", "t">>)>>)>>),
          Plus("sep"), Group(1, Cat(<<Plus("line"), ZoneRe>>))>>)

\* /(\d{4}-\d{2}-\d{2}T\d{2}:\d{2}:\d{2}(?:\.\d+)?(?:Z|[+-]\d{2}:\d{2})?)/
IsoRe ==
    Group(1, Cat(<<Rep("digit", 4, 4), Lit(<<"-">>), Rep("digit", 2, 2), Lit(<<"-">>),
                   Rep("digit", 2, 2), Exact(<<"T">>), Rep("digit", 2, 2), Lit(<<":">>),
                   Rep("digit", 2, 2), Lit(<<":">>), Rep("digit", 2, 2),
                   Opt(Cat(<<Lit(<<".">>), Plus("digit")>>)),
                   Opt(Alt(<<Exact(<<"Z">>),
                             Cat(<<Rep("sign", 1, 1), Rep("digit", 2, 2), Lit(<<":">>),
                                   Rep("digit", 2, 2)>>)>>))>>))

\* an optional text, absent when it is empty
NonEmptyText(g) == IF IsSome(g) /\ Get(g) # <<>> THEN g ELSE None

\* match?.[1]: the group when it matched a non-empty text
Group1(s, re) == NonEmptyText(GroupText(s, Match(re, s), 1))

\* the trimmed text of an optional group
Trimmed(g) == IF IsSome(g) THEN Some(Trim(Get(g))) ELSE None

\* !x for an optional string field
Falsy(x) == x = None \/ x = Some(<<>>)

\* a section, absent when none of its fields is set:
\* Object.keys(section).length > 0 ? section : undefined
OmitEmpty(section) == IF HasKeys(section) THEN Some(section) ELSE None

\* a list, absent when it is empty
OmitEmptyList(q) == IF q # <<>> THEN Some(q) ELSE None

\* the section from the texts the four expressions captured
CredentialsOf(claimSigner, signedByText, labelled, iso) ==
    Credentials(claimSigner,
                IF Falsy(claimSigner) THEN signedByText ELSE None,
                IF Falsy(labelled) /\ IsSome(iso) THEN iso ELSE labelled)

\* parseAboutTheseCredentials: claimSigner, signedBy when claimSigner is
\* falsy, timestamp from a label or else the first ISO 8601 time
parseAboutTheseCredentials(manifestText) ==
    OmitEmpty(CredentialsOf(Trimmed(Group1(manifestText, SignerRe)),
                            Trimmed(Group1(manifestText, SignedByRe)),
                            Trimmed(Group1(manifestText, TimestampRe)),
                            Group1(manifestText, IsoRe)))

(***************************************************************************)
(* identity-parser                                                         *)
(***************************************************************************)
\* /linkedin\.com\/in\/([\w-]+)|linkedin[:\s]+(?:https?:\/\/)?(?:www\.)?linkedin\.com\/in\/([\w-]+)/i
LinkedInRe ==
    Alt(<<Cat(<<Lit(<<"l", "i", "n", "k", "e", "d", "i", "n", ".", "c", "o", "m", "/", "i", "n", "/">>), Group(1, Plus("word"))>>),
          Cat(<<Lit(<<"l", "i", "n", "k", "e", "d", "i", "n">>), Plus("sep"),
                Opt(Cat(<<Lit(<<"h", "t", "t", "p">>), Opt(Lit(<<"s">>)), Lit(<<":", "/", "/">>)>>)),
                Opt(Lit(<<"w", "w", "w", ".">>)), Lit(<<"l", "i", "n", "k", "e", "d", "i", "n", ".", "c", "o", "m", "/", "i", "n", "/">>), Group(2, Plus("word"))>>)>>)

NameWindow == 200

NameLabels == Alt(<<Lit(<<"n", "a", "m", "e">>), Lit(<<"c", "r", "e", "a", "t", "o", "r">>), Lit(<<"a", "u", "t", "h", "o", "r">>)>>)

\* (?:name|creator|author)[:\s]+([^\n]+)(?:[\s\S]{0,200}linkedin|linkedin[\s\S]{0,200}(?:name|creator|author)[:\s]+([^\n]+)) with the flag i
NameRe ==
    Cat(<<NameLabels, Plus("sep"), Group(1, Plus("line")),
          Alt(<<Cat(<<Rep("any", 0, NameWindow), Lit(<<"l", "i", "n", "k", "e", "d", "i", "n">>)>>),
                Cat(<<Lit(<<"l", "i", "n", "k", "e", "d", "i", "n">>), Rep("any", 0, NameWindow), NameLabels,
                      Plus("sep"), Group(2, Plus("line"))>>)>>)>>)

LinkedInIdentity(name, profileUrl) ==
    [name |-> name, profileUrl |-> profileUrl, verified |-> TRUE]

ProfilePrefix == <<"h", "t", "t", "p", "s", ":", "/", "/", "w", "w", "w", ".", "l", "i", "n", "k", "e", "d", "i", "n", ".", "c", "o", "m", "/", "i", "n", "/">>

\* the identity from the match of the mention and the match of the name
LinkedInOf(manifestText, linkedInMatch, nameMatch) ==
    LET g1 == GroupText(manifestText, linkedInMatch, 1)
        username == IF ~Falsy(g1) THEN g1 ELSE GroupText(manifestText, linkedInMatch, 2)
        n1 == Trimmed(GroupText(manifestText, nameMatch, 1))
        n2 == Trimmed(GroupText(manifestText, nameMatch, 2))
        name == IF ~Falsy(n1) THEN Get(n1)
                ELSE IF ~Falsy(n2) THEN Get(n2) ELSE Get(username)
    IN  IF linkedInMatch.found /\ ~Falsy(username)
        THEN Some(LinkedInIdentity(name, ProfilePrefix \o Get(username)))
        ELSE None

\* parseLinkedInIdentity: the profile of the first LinkedIn mention and the
\* name paired with it
parseLinkedInIdentity(manifestText) ==
    LinkedInOf(manifestText, Match(LinkedInRe, manifestText), Match(NameRe, manifestText))

\* /(?:creator|author|made by)[:\s]+([^\n]+)/gi
CreatorRe == LabelValue(<<Lit(<<"c", "r", "e", "a", "t", "o", "r">>), Lit(<<"a", "u", "t", "h", "o", "r">>), Lit(<<"m", "a", "d", "e", " ", "b", "y">>)>>)

\* /(?:instagram|twitter|x\.com|facebook|tiktok|youtube)[:\s]+(@?[\w.-]+)/gi
SocialRe ==
    Cat(<<Alt(<<Lit(<<"i", "n", "s", "t", "a", "g", "r", "a", "m">>), Lit(<<"t", "w", "i", "t", "t", "e", "r">>), Lit(<<"x", ".", "c", "o", "m">>), Lit(<<"f", "a", "c", "e", "b", "o", "o", "k">>),
                Lit(<<"t", "i", "k", "t", "o", "k">>), Lit(<<"y", "o", "u", "t", "u", "b", "e">>)>>),
          Plus("sep"), Group(1, Cat(<<Opt(Lit(<<"@">>)), Plus("handle")>>))>>)

\* name.toLowerCase()
LowerCase(s) == [k \in 1..Len(s) |-> Lower(s[k])]

TextIdentity(name, socialAccounts) == [name |-> name, socialAccounts |-> socialAccounts]

\* the trimmed text of the first group of a match, as a list that is empty
\* when the text is
TrimmedGroup(trimmed) == IF trimmed # <<>> THEN <<trimmed>> ELSE <<>>

\* the trimmed first groups of the matches of an expression, the empty
\* ones left out
TrimmedGroups(re, s) ==
    FlatMap(LAMBDA m : TrimmedGroup(Trim(Get(GroupText(s, m, 1)))), MatchAll(re, s))

\* the identities of the creator names, the social handles attached to the
\* last of them or standing alone
IdentitiesOf(names, socialAccounts) ==
    LET identities == [k \in 1..Len(names) |-> TextIdentity(Some(names[k]), None)]
    IN  IF socialAccounts = <<>> THEN identities
        ELSE IF names # <<>>
        THEN [identities EXCEPT ![Len(names)].socialAccounts = Some(socialAccounts)]
        ELSE <<TextIdentity(None, Some(socialAccounts))>>

\* parseOtherIdentities: the creators that do not mention LinkedIn, the
\* social handles attached to the last of them or standing alone
parseOtherIdentities(manifestText) ==
    OmitEmptyList(IdentitiesOf(
        SelectSeq(TrimmedGroups(CreatorRe, manifestText),
                  LAMBDA n : ~Includes(LowerCase(n), <<"l", "i", "n", "k", "e", "d", "i", "n">>)),
        TrimmedGroups(SocialRe, manifestText)))

\* parseWhoThisComesFrom
parseWhoThisComesFrom(manifestText) ==
    OmitEmpty(WhoThisComesFrom(parseLinkedInIdentity(manifestText),
                               parseOtherIdentities(manifestText)))

(***************************************************************************)
(* content-parser                                                          *)
(***************************************************************************)
\* /(?:action|edited|modified|created|generated)[:\s]+([^\n]+)/gi
ActionLabelRe ==
    LabelValue(<<Lit(<<"a", "c", "t", "i", "o", "n">>), Lit(<<"e", "d", "i", "t", "e", "d">>), Lit(<<"m", "o", "d", "i", "f", "i", "e", "d">>), Lit(<<"c", "r", "e", "a", "t", "e", "d">>), Lit(<<"g", "e", "n", "e", "r", "a", "t", "e", "d">>)>>)

\* /c2pa\.actions?\.([a-z.]+)/gi
ActionTokenRe ==
    Cat(<<Lit(<<"c", "2", "p", "a", ".", "a", "c", "t", "i", "o", "n">>), Opt(Lit(<<"s">>)), Lit(<<".">>), Group(1, Plus("name"))>>)

ActionWindow == 100

\* the text of an action as the source of an expression: a dot matches any
\* character, every other character of the texts used here itself
TextAsRe(actionText) ==
    Cat([k \in 1..Len(actionText) |->
            IF actionText[k] = "." THEN Rep("dot", 1, 1)
            ELSE Lit(<<Lower(actionText[k])>>)])

\* `${actionText}[\s\S]{0,100}(?:software|agent|tool)[:\s]+([^\n]+)` with the flag i
SoftwareRe(actionText) ==
    Cat(<<TextAsRe(actionText), Rep("any", 0, ActionWindow),
          Alt(<<Lit(<<"s", "o", "f", "t", "w", "a", "r", "e">>), Lit(<<"a", "g", "e", "n", "t">>), Lit(<<"t", "o", "o", "l">>)>>), Plus("sep"),
          Group(1, Plus("line"))>>)

\* `${actionText}[\s\S]{0,100}(\d{4}-\d{2}-\d{2}T[^\s]+)` with the flag i
WhenRe(actionText) ==
    Cat(<<TextAsRe(actionText), Rep("any", 0, ActionWindow),
          Group(1, Cat(<<Rep("digit", 4, 4), Lit(<<"-">>), Rep("digit", 2, 2), Lit(<<"-">>),
                         Rep("digit", 2, 2), Lit(<<"t">>), Plus("nonspace")>>))>>)

\* the body of the loop of parseContentActions for one action text
TextAction(manifestText, actionText) ==
    ContentAction(actionText,
                  Trimmed(Group1(manifestText, SoftwareRe(actionText))),
                  Group1(manifestText, WhenRe(actionText)),
                  None)

\* the loop of parseContentActions over the action texts
TextActions(manifestText, texts) ==
    [k \in 1..Len(texts) |-> TextAction(manifestText, texts[k])]

\* parseContentActions: the actions of the label lines, then those of the
\* namespaced tokens
parseContentActions(manifestText) ==
    OmitEmptyList(TextActions(manifestText,
                              TrimmedGroups(ActionLabelRe, manifestText)
                              \o TrimmedGroups(ActionTokenRe, manifestText)))

\* /(?:ai|artificial intelligence|generative|generated|gen.?ai)/i
GenerativeRe ==
    Alt(<<Lit(<<"a", "i">>), Lit(<<"a", "r", "t", "i", "f", "i", "c", "i", "a", "l", " ", "i", "n", "t", "e", "l", "l", "i", "g", "e", "n", "c", "e">>), Lit(<<"g", "e", "n", "e", "r", "a", "t", "i", "v", "e">>), Lit(<<"g", "e", "n", "e", "r", "a", "t", "e", "d">>),
          Cat(<<Lit(<<"g", "e", "n">>), Opt(Rep("dot", 1, 1)), Lit(<<"a", "i">>)>>)>>)

\* /(?:training|data.?mining|model.?training)/i
TrainingRe ==
    Alt(<<Lit(<<"t", "r", "a", "i", "n", "i", "n", "g">>),
          Cat(<<Lit(<<"d", "a", "t", "a">>), Opt(Rep("dot", 1, 1)), Lit(<<"m", "i", "n", "i", "n", "g">>)>>),
          Cat(<<Lit(<<"m", "o", "d", "e", "l">>), Opt(Rep("dot", 1, 1)), Lit(<<"t", "r", "a", "i", "n", "i", "n", "g">>)>>)>>)

\* /(?:model|ai.?model)[:\s]+([^\n]+)/i
ModelRe ==
    LabelValue(<<Lit(<<"m", "o", "d", "e", "l">>), Cat(<<Lit(<<"a", "i">>), Opt(Rep("dot", 1, 1)), Lit(<<"m", "o", "d", "e", "l">>)>>)>>)

\* /version[:\s]+([^\n]+)/i
VersionRe == LabelValue(<<Lit(<<"v", "e", "r", "s", "i", "o", "n">>)>>)

GenAIInfo(generative, training, model, version) ==
    [generative |-> generative, training |-> training, model |-> model,
     version |-> version]

\* regex.test(text) as an optional flag that is set only when true
FlagOf(m) == IF m.found THEN Some(TRUE) ELSE None

\* the version is read only when a model was found
GenAIOf(generative, training, model, versionText) ==
    GenAIInfo(generative, training, model,
              IF ~Falsy(model) THEN versionText ELSE None)

\* parseGenAIInfo
parseGenAIInfo(manifestText) ==
    OmitEmpty(GenAIOf(FlagOf(Match(GenerativeRe, manifestText)),
                      FlagOf(Match(TrainingRe, manifestText)),
                      Trimmed(Group1(manifestText, ModelRe)),
                      Trimmed(Group1(manifestText, VersionRe))))

\* parseAboutThisContent
parseAboutThisContent(manifestText) ==
    OmitEmpty(AboutThisContent(parseContentActions(manifestText),
                               parseGenAIInfo(manifestText)))

(***************************************************************************)
(* validation-parser                                                       *)
(***************************************************************************)
\* /issuer[:\s]+([^\n]+)/i
IssuerRe == LabelValue(<<Lit(<<"i", "s", "s", "u", "e", "r">>)>>)
\* /subject[:\s]+([^\n]+)/i
SubjectRe == LabelValue(<<Lit(<<"s", "u", "b", "j", "e", "c", "t">>)>>)
\* /serial[:\s]*(?:number)?[:\s]+([^\n]+)/i
SerialRe ==
    Cat(<<Lit(<<"s", "e", "r", "i", "a", "l">>), Star("sep"), Opt(Lit(<<"n", "u", "m", "b", "e", "r">>)), Plus("sep"),
          Group(1, Plus("line"))>>)
\* /(?:valid from|not before)[:\s]+([^\n]+)/i
ValidFromRe == LabelValue(<<Lit(<<"v", "a", "l", "i", "d", " ", "f", "r", "o", "m">>), Lit(<<"n", "o", "t", " ", "b", "e", "f", "o", "r", "e">>)>>)
\* /(?:valid until|not after)[:\s]+([^\n]+)/i
ValidUntilRe == LabelValue(<<Lit(<<"v", "a", "l", "i", "d", " ", "u", "n", "t", "i", "l">>), Lit(<<"n", "o", "t", " ", "a", "f", "t", "e", "r">>)>>)
\* /(?:trust|trusted|verified by)[:\s]+([^\n]+)/gi
TrustRe == LabelValue(<<Lit(<<"t", "r", "u", "s", "t">>), Lit(<<"t", "r", "u", "s", "t", "e", "d">>), Lit(<<"v", "e", "r", "i", "f", "i", "e", "d", " ", "b", "y">>)>>)

TextCertificate(issuer, subject, serialNumber, validFrom, validUntil) ==
    [issuer |-> issuer, subject |-> subject, serialNumber |-> serialNumber,
     validFrom |-> validFrom, validUntil |-> validUntil]

\* parseValidationInfo
parseValidationInfo(manifestText) ==
    OmitEmpty(ValidationInfo(
        OmitEmpty(TextCertificate(Trimmed(Group1(manifestText, IssuerRe)),
                                  Trimmed(Group1(manifestText, SubjectRe)),
                                  Trimmed(Group1(manifestText, SerialRe)),
                                  Trimmed(Group1(manifestText, ValidFromRe)),
                                  Trimmed(Group1(manifestText, ValidUntilRe)))),
        OmitEmptyList(TrimmedGroups(TrustRe, manifestText))))

(***************************************************************************)
(* manifest-parser: the text strategy                                      *)
(***************************************************************************)
\* parseManifest on a text that is not JSON: the four section parsers
parseManifestText(manifestText) ==
    ParsedManifestData(parseWhoThisComesFrom(manifestText),
                       parseAboutThisContent(manifestText),
                       parseAboutTheseCredentials(manifestText),
                       parseValidationInfo(manifestText))
(***************************************************************************)
(* Reports given to the structured strategy                                *)
(***************************************************************************)
MaxActions == 2

CreatedItem ==
    JObj([action |-> JStr("c2pa.created"), softwareAgent |-> JStr("Adobe Firefly")])
OpenedItem == JObj([action |-> JStr("c2pa.opened")])
EditedItem ==
    JObj([action |-> JStr("c2pa.edited"),
          softwareAgent |-> JObj([name |-> JStr("Photoshop")]),
          when |-> JStr("2024-01-01T00:00:00Z")])
UnnamedItem == JObj([softwareAgent |-> JStr("Adobe Firefly")])
EmptyNameItem == JObj([action |-> JStr("")])

ActionItems ==
    {CreatedItem, OpenedItem, EditedItem, UnnamedItem, EmptyNameItem, JNull}

ActionLists == UNION { [1..n -> ActionItems] : n \in 0..MaxActions }

ActionsAssertion(items) ==
    JObj([label |-> JStr("c2pa.actions.v2"), data |-> JObj([actions |-> JArr(items)])])
ThumbnailAssertion ==
    JObj([label |-> JStr("c2pa.thumbnail.claim"), data |-> JObj([format |-> JStr("image/jpeg")])])

AssertionLists ==
    { <<ThumbnailAssertion, ActionsAssertion(items)>> : items \in ActionLists }
    \cup { <<ActionsAssertion(<<CreatedItem>>), ThumbnailAssertion,
             ActionsAssertion(<<OpenedItem>>)>>,
           <<JObj([label |-> JStr("c2pa.actions"),
                   data |-> JObj([actions |-> JArr(<<CreatedItem>>)])])>>,
           <<JNull, JObj([label |-> JStr("c2pa.actions.v2")])>> }

Signatures ==
    { JObj([common_name |-> JStr("Jane Doe"), issuer |-> JStr("Acme CA"),
            time |-> JStr("2024-01-01T00:00:00Z")]),
      JObj([common_name |-> JStr("Jane Doe")]),
      JObj([issuer |-> JStr("Acme CA")]),
      JObj([common_name |-> JStr(""), issuer |-> JStr("Acme CA")]),
      JObj([common_name |-> JNum(7), issuer |-> JStr("Acme CA")]),
      JObj([alg |-> JStr("Es256")]),
      EmptyObj }

\* a manifest object from the values of its keys; a key whose value is
\* undefined is not a key of the object
ManifestObj(generators, assertions, signature) ==
    JObj([k \in {key \in {"claim_generator_info", "assertions", "signature_info"} :
                   (CASE key = "claim_generator_info" -> generators
                      [] key = "assertions" -> assertions
                      [] OTHER -> signature) # JUndefined}
            |-> CASE k = "claim_generator_info" -> generators
                  [] k = "assertions" -> assertions
                  [] OTHER -> signature])

GeneratorLists ==
    { JUndefined,
      JArr(<<JObj([name |-> JStr("Firefly"), version |-> JStr("1.0")])>>),
      JArr(<<JObj([version |-> JStr("1.0")])>>) }

ManifestObjs ==
    { ManifestObj(g, a, s) :
        g \in GeneratorLists,
        a \in {JUndefined} \cup { JArr(l) : l \in AssertionLists },
        s \in {JUndefined} \cup Signatures }

\* the report of a reader: the active manifest among the manifests
Report(manifest) ==
    JObj([active_manifest |-> JStr("m1"), manifests |-> JObj([m1 |-> manifest])])

Reports ==
    { Report(m) : m \in ManifestObjs }
    \cup { EmptyObj, JArr(<<>>),
           JObj([active_manifest |-> JStr("m2"), manifests |-> JObj([m1 |-> EmptyObj])]),
           JObj([active_manifest |-> JNum(1), manifests |-> JObj([m1 |-> EmptyObj])]),
           JObj([active_manifest |-> JStr("m1")]) }


(***************************************************************************)
(* Reports given to the text strategy                                      *)
(***************************************************************************)
NameLine ==
    <<"N", "a", "m", "e", ":", " ", "J", "a", "n", "e", " ", "D", "o", "e">>
LinkedInLine ==
    <<"L", "i", "n", "k", "e", "d", "I", "n", ":", " ", "h", "t", "t", "p",
      "s", ":", "/", "/", "l", "i", "n", "k", "e", "d", "i", "n", ".",
      "c", "o", "m", "/", "i", "n", "/", "j", "d", "o", "e">>
ClaimSignerLine ==
    <<"C", "l", "a", "i", "m", " ", "s", "i", "g", "n", "e", "r", ":", " ",
      "J", "a", "n", "e", " ", "D", "o", "e">>
SignedByLine ==
    <<"S", "i", "g", "n", "e", "d", " ", "b", "y", ":", " ", "A", "c", "m",
      "e", " ", "I", "n", "c">>
BlankSignerLine ==
    <<"S", "i", "g", "n", "e", "r", ":", " ", " ">>
CreatorLine ==
    <<"C", "r", "e", "a", "t", "o", "r", ":", " ", "B", "o", "b">>
SocialLine ==
    <<"I", "n", "s", "t", "a", "g", "r", "a", "m", ":", " ", "@", "b", "o",
      "b">>
ActionLine ==
    <<"A", "c", "t", "i", "o", "n", ":", " ", "c", "2", "p", "a", ".", "c",
      "r", "e", "a", "t", "e", "d">>
IssuerLine ==
    <<"I", "s", "s", "u", "e", "r", ":", " ", "A", "c", "m", "e", " ", "C",
      "A">>
TimeLine ==
    <<"T", "i", "m", "e", ":", " ", "2", "0", "2", "4", "-", "0", "1", "-",
      "0", "1", "T", "0", "0", ":", "0", "0", ":", "0", "0", "Z">>
TitleLine ==
    <<"T", "i", "t", "l", "e", ":", " ", "p", "h", "o", "t", "o">>

\* a line longer than the window in which a name is looked for
FillerLine == [k \in 1..(NameWindow + 1) |-> "x"]

TextLines ==
    {NameLine, LinkedInLine, ClaimSignerLine, SignedByLine,
     BlankSignerLine, CreatorLine, SocialLine, ActionLine,
     IssuerLine, TimeLine, TitleLine,
     FillerLine}

MaxLines == 2

Newline == <<"\n">>

RECURSIVE JoinLines(_)
\* the lines joined by newlines
JoinLines(ls) ==
    IF ls = <<>> THEN <<>>
    ELSE IF Len(ls) = 1 THEN ls[1]
    ELSE ls[1] \o Newline \o JoinLines(Tail(ls))

\* the reports of up to MaxLines different lines, and a name and a LinkedIn
\* mention on the two sides of a line longer than the window
Texts ==
    { JoinLines(ls) :
        ls \in { q \in UNION { [1..n -> TextLines] : n \in 0..MaxLines } :
                   \A a, b \in 1..Len(q) : a # b => q[a] # q[b] } }
    \cup { JoinLines(<<NameLine, FillerLine, LinkedInLine>>),
           JoinLines(<<LinkedInLine, FillerLine, NameLine>>) }

NormalizeInit ==
    FnInit({ Call("parseManifestJson", j) : j \in Reports }
           \cup { Call("parseManifestText", t) : t \in Texts })

\* parseManifest on a text that is the JSON of the report
ParseManifestJson ==
    /\ fnIn.fn = "parseManifestJson"
    /\ FnReturn(parseManifestJson(fnIn.arg))

\* parseManifest on a text that is not JSON
ParseManifestText ==
    /\ fnIn.fn = "parseManifestText"
    /\ FnReturn(parseManifestText(fnIn.arg))

NormalizeNext == ParseManifestJson \/ ParseManifestText

SpecNormalize == NormalizeInit /\ [][NormalizeNext]_vars

Normalized == fnIn.fn = "parseManifestJson" /\ IsSome(fnOut)

\* the manifest of a report that has one; the actions listed in it
ReportManifest == Field(Field(fnIn.arg, "manifests"), "m1")
ReportedItems ==
    FlatMap(LAMBDA a : IF IsArray(Field(Field(a, "data"), "actions"))
                          /\ Field(a, "label") = JStr("c2pa.actions.v2")
                       THEN Field(Field(a, "data"), "actions").array ELSE <<>>,
            Field(ReportManifest, "assertions").array)
NamedItems ==
    SelectSeq(ReportedItems,
              LAMBDA i : IsString(Field(i, "action"))
                         /\ Field(i, "action").string # "")
NormalizedActions ==
    IF IsSome(Get(fnOut).aboutThisContent)
    THEN Get(Get(Get(fnOut).aboutThisContent).actions) ELSE <<>>

\* C24: the structured strategy keeps the actions in the order of the
\* report: the k-th action returned is the k-th named action of the report,
\* with its software agent exactly when the report gives one as a string;
\* "created" with an agent followed by "opened" without one gives those two
\* actions in that order, the second without softwareAgent.
C24_ActionOrderPreserved ==
    (Normalized /\ IsArray(Field(ReportManifest, "assertions"))) =>
        /\ Len(NormalizedActions) = Len(NamedItems)
        /\ \A k \in 1..Len(NamedItems) :
            /\ NormalizedActions[k].action = Field(NamedItems[k], "action").string
            /\ NormalizedActions[k].softwareAgent =
                  StringField(Field(NamedItems[k], "softwareAgent"))
        /\ ReportedItems = <<CreatedItem, OpenedItem>> =>
            /\ Len(NormalizedActions) = 2
            /\ NormalizedActions[1].action = "c2pa.created"
            /\ NormalizedActions[1].softwareAgent = Some("Adobe Firefly")
            /\ NormalizedActions[2].action = "c2pa.opened"
            /\ NormalizedActions[2].softwareAgent = None

C24_Witness ==
    /\ Normalized
    /\ IsArray(Field(ReportManifest, "assertions"))
    /\ ReportedItems = <<CreatedItem, OpenedItem>>
    /\ Len(NormalizedActions) = 2
    /\ NormalizedActions[2].action = "c2pa.opened"
JsonNormalized == fnIn.fn = "parseManifestJson" /\ IsSome(fnOut)
TextNormalized == fnIn.fn = "parseManifestText" /\ IsSome(fnOut)

\* the signature object of a report, and its signer name when it has one
ReportSignature == Field(ReportManifest, "signature_info")
HasSignerName ==
    IsString(Field(ReportSignature, "common_name"))
    /\ Field(ReportSignature, "common_name").string # ""

\* a field that is present with a non-empty value; blank is the empty
\* string of the strategy
Populated(field, blank) == IsSome(field) /\ Get(field) # blank

NormalizedCredentials == Get(Get(fnOut).aboutTheseCredentials)

\* C25: in the credentials metadata of either strategy at most one of
\* claimSigner and signedBy has a value; when the report names a signer,
\* claimSigner is that name and signedBy is omitted; signedBy has a value
\* only when no signer name was found.
C25_SignerPreferred ==
    /\ (JsonNormalized /\ IsSome(Get(fnOut).aboutTheseCredentials)) =>
        /\ ~( Populated(NormalizedCredentials.claimSigner, "")
              /\ Populated(NormalizedCredentials.signedBy, "") )
        /\ HasSignerName =>
            /\ NormalizedCredentials.claimSigner =
                  Some(Field(ReportSignature, "common_name").string)
            /\ NormalizedCredentials.signedBy = None
        /\ Populated(NormalizedCredentials.signedBy, "") =>
            /\ ~HasSignerName
            /\ Field(ReportSignature, "issuer") =
                  JStr(Get(NormalizedCredentials.signedBy))
    /\ (JsonNormalized /\ HasSignerName) => IsSome(Get(fnOut).aboutTheseCredentials)
    /\ (TextNormalized /\ IsSome(Get(fnOut).aboutTheseCredentials)) =>
        /\ ~( Populated(NormalizedCredentials.claimSigner, <<>>)
              /\ Populated(NormalizedCredentials.signedBy, <<>>) )
        /\ Includes(fnIn.arg, ClaimSignerLine) =>
            /\ Populated(NormalizedCredentials.claimSigner, <<>>)
            /\ NormalizedCredentials.signedBy = None
        /\ fnIn.arg = JoinLines(<<SignedByLine, ClaimSignerLine>>) =>
            NormalizedCredentials.claimSigner =
                Some(<<"J", "a", "n", "e", " ", "D", "o", "e">>)
        /\ Populated(NormalizedCredentials.signedBy, <<>>) =>
            ~Includes(fnIn.arg, ClaimSignerLine)
    /\ (TextNormalized /\ Includes(fnIn.arg, ClaimSignerLine)) =>
            IsSome(Get(fnOut).aboutTheseCredentials)

C25_Witness ==
    /\ JsonNormalized
    /\ HasSignerName
    /\ IsString(Field(ReportSignature, "issuer"))
    /\ NormalizedCredentials.claimSigner = Some("Jane Doe")
    /\ NormalizedCredentials.signedBy = None

\* a present section, list or object that holds nothing
EmptyList(field) == field = Some(<<>>)
EmptyRecord(field) == IsSome(field) /\ ~HasKeys(Get(field))

\* the lines of a text report in which no parser finds anything
PlainLines == {TitleLine, FillerLine}
PlainTexts ==
    {<<>>} \cup PlainLines
    \cup { JoinLines(ls) : ls \in { q \in [1..2 -> PlainLines] : q[1] # q[2] } }

\* C26: neither strategy returns an empty container: a section, and a list
\* or object inside it, is either omitted or holds something; a report
\* without the source of a section has no key for it, and a report in which
\* nothing is found yields no section at all.
C26_AbsentSectionsOmitted ==
    /\ (JsonNormalized \/ TextNormalized) =>
        /\ ~EmptyRecord(Get(fnOut).whoThisComesFrom)
        /\ ~EmptyRecord(Get(fnOut).aboutThisContent)
        /\ ~EmptyRecord(Get(fnOut).aboutTheseCredentials)
        /\ ~EmptyRecord(Get(fnOut).validationInfo)
        /\ IsSome(Get(fnOut).whoThisComesFrom) =>
              ~EmptyList(Get(Get(fnOut).whoThisComesFrom).otherIdentities)
        /\ IsSome(Get(fnOut).aboutThisContent) =>
              /\ ~EmptyList(Get(Get(fnOut).aboutThisContent).actions)
              /\ ~EmptyRecord(Get(Get(fnOut).aboutThisContent).genAIInfo)
        /\ IsSome(Get(fnOut).validationInfo) =>
              /\ ~EmptyRecord(Get(Get(fnOut).validationInfo).certificate)
              /\ ~EmptyList(Get(Get(fnOut).validationInfo).trustInfo)
    /\ JsonNormalized =>
        /\ ~IsObject(ReportManifest) => Get(fnOut) = OnlyRawManifest
        /\ IsObject(ReportManifest) =>
            /\ Field(ReportManifest, "claim_generator_info") = JUndefined =>
                  Get(fnOut).whoThisComesFrom = None
            /\ Field(ReportManifest, "assertions") = JUndefined =>
                  Get(fnOut).aboutThisContent = None
            /\ Field(ReportManifest, "signature_info") = JUndefined =>
                  /\ Get(fnOut).aboutTheseCredentials = None
                  /\ Get(fnOut).validationInfo = None
    /\ TextNormalized =>
        /\ IsSome(Get(fnOut).whoThisComesFrom) =>
              \A k \in 1..Len(IF IsSome(Get(Get(fnOut).whoThisComesFrom).otherIdentities)
                              THEN Get(Get(Get(fnOut).whoThisComesFrom).otherIdentities)
                              ELSE <<>>) :
                  LET identity == Get(Get(Get(fnOut).whoThisComesFrom).otherIdentities)[k]
                  IN  HasKeys(identity) /\ ~EmptyList(identity.socialAccounts)
        /\ fnIn.arg \in PlainTexts => Get(fnOut) = OnlyRawManifest

C26_Witness ==
    /\ JsonNormalized
    /\ IsObject(ReportManifest)
    /\ ReportSignature = EmptyObj
    /\ Field(ReportManifest, "assertions") = JArr(<<ThumbnailAssertion, ActionsAssertion(<<>>)>>)
    /\ Get(fnOut) = OnlyRawManifest

JaneDoe == <<"J", "a", "n", "e", " ", "D", "o", "e">>

JaneDoeIdentity ==
    LinkedInIdentity(JaneDoe, ProfilePrefix \o <<"j", "d", "o", "e">>)

\* the name label and the LinkedIn mention on adjacent lines, either first
NameNearLinkedIn ==
    { JoinLines(<<NameLine, LinkedInLine>>), JoinLines(<<LinkedInLine, NameLine>>) }

\* C27: in the text strategy a LinkedIn mention is paired with a name label
\* in the window before or after it: a report with "Name: Jane Doe" next to
\* "linkedin.com/in/jdoe", on either side, yields the identity
\* { name: "Jane Doe", profileUrl: "https://www.linkedin.com/in/jdoe",
\* verified: true }.
C27_NamePairedEitherSide ==
    (TextNormalized /\ fnIn.arg \in NameNearLinkedIn) =>
        /\ IsSome(Get(fnOut).whoThisComesFrom)
        /\ Get(Get(fnOut).whoThisComesFrom).linkedInIdentity = Some(JaneDoeIdentity)

(***************************************************************************)
(* index.ts: the ReadResource handler                                      *)
(***************************************************************************)
\* a file name is its pieces: a leading "." marks a hidden name, a last
\* piece that begins with "." is its extension
HiddenJpg == <<".", "hidden", ".jpg">>
PlainJpg == <<"a", ".jpg">>
UpperPng == <<"B", ".PNG">>
NotesTxt == <<"notes", ".txt">>
SubDir == <<"sub">>
DeepDir == <<"deep">>
DotDot == <<"..">>
MissingName == <<"missing">>

HomeDir == <<<<"home">>, <<"u">>>>
OtherHome == <<<<"home">>, <<"v">>>>
SystemDir == <<<<"etc">>>>

\* commonDirs of the ListResources handler
CommonDirs ==
    { HomeDir \o <<<<d>>>> : d \in {"Desktop", "Downloads", "Documents", "Pictures"} }

\* the directories of the file system; each holds the same entries
Directories ==
    CommonDirs \cup {HomeDir, OtherHome \o <<<<"Desktop">>>>, SystemDir}

\* fs.stat: what is at a resolved path
StatOf(path) ==
    IF path \in Directories \/ path = <<>> \/ path = <<<<"home">>>> \/ path = OtherHome
    THEN "directory"
    ELSE IF \E d \in Directories :
                path \in {d \o <<SubDir>>, d \o <<SubDir, DeepDir>>}
    THEN "directory"
    ELSE IF \E d \in Directories :
                path \in {d \o <<PlainJpg>>, d \o <<HiddenJpg>>, d \o <<NotesTxt>>,
                          d \o <<SubDir, UpperPng>>, d \o <<SubDir, DeepDir, PlainJpg>>}
    THEN "file"
    ELSE "missing"

\* readdir(dir, { withFileTypes: true })
EntriesOf(dir) ==
    IF dir \in Directories THEN {PlainJpg, HiddenJpg, NotesTxt, SubDir}
    ELSE IF \E d \in Directories : dir = d \o <<SubDir>> THEN {UpperPng, DeepDir}
    ELSE IF \E d \in Directories : dir = d \o <<SubDir, DeepDir>> THEN {PlainJpg}
    ELSE {}

MediaExtensions ==
    {".jpg", ".jpeg", ".png", ".gif", ".webp", ".tiff", ".avif", ".heic", ".mp4", ".mov"}

\* entry.name.toLowerCase().match(/\.[^.]+$/)?.[0] for the names used here
ExtensionOf(name) ==
    LET last == name[Len(name)]
    IN  CASE last \in {".jpg", ".txt"} -> Some(last)
          [] last = ".PNG" -> Some(".png")
          [] OTHER -> None

MaxDepth == 1

RECURSIVE scan(_, _)
\* scan of getImageFiles: the media files of a directory and, while depth is
\* below maxDepth, of its directories
scan(dir, depth) ==
    IF depth > MaxDepth THEN {}
    ELSE { dir \o <<e>> : e \in { n \in EntriesOf(dir) :
                StatOf(dir \o <<n>>) = "file"
                /\ IsSome(ExtensionOf(n)) /\ Get(ExtensionOf(n)) \in MediaExtensions } }
         \cup UNION { scan(dir \o <<e>>, depth + 1) :
                e \in { n \in EntriesOf(dir) :
                    StatOf(dir \o <<n>>) = "directory" /\ depth < MaxDepth } }

\* getImageFiles(dirPath, 1): the files found (their order is not modelled)
getImageFiles(dirPath) == scan(dirPath, 0)

RECURSIVE resolve(_)
\* path.resolve of an absolute path: ".." removes the segment before it
resolve(segments) ==
    IF segments = <<>> THEN <<>>
    ELSE LET before == resolve(SubSeq(segments, 1, Len(segments) - 1))
             last == segments[Len(segments)]
         IN  IF last = DotDot
             THEN (IF before = <<>> THEN <<>> ELSE SubSeq(before, 1, Len(before) - 1))
             ELSE before \o <<last>>

Uri(scheme, path) == [scheme |-> scheme, path |-> path]

ResourceSuffixes ==
    { <<>>, <<PlainJpg>>, <<HiddenJpg>>, <<NotesTxt>>, <<SubDir>>, <<SubDir, UpperPng>>,
      <<DotDot>>, <<MissingName>> }

ResourceUris ==
    { Uri("file", d \o x) : d \in Directories, x \in ResourceSuffixes }
    \cup { Uri("https", HomeDir), Uri("file", HomeDir \o <<<<"Desktop">>, DotDot, DotDot, DotDot, <<"etc">>>>) }

\* what readCredentialsFromFile returns to the handler
ResourceResults == {NotFoundResult, FailureResult(<<"File not found">>)}

ResourceError(message) == [kind |-> "error", message |-> message, files |-> {}]
ResourceListing(files) == [kind |-> "listing", message |-> <<>>, files |-> files]
ResourceCredentials(res) == [kind |-> "credentials", message |-> <<>>, files |-> {}, result |-> res]

\* the ReadResource handler: a listing for a directory, the credentials of
\* a file, an error for anything else
ReadResourceHandler(uri, res) ==
    LET resolvedPath == resolve(uri.path)
    IN  IF uri.scheme # "file" THEN ResourceError(<<"Only file:// URIs are supported">>)
        ELSE IF StatOf(resolvedPath) = "directory"
        THEN ResourceListing(getImageFiles(resolvedPath))
        ELSE IF StatOf(resolvedPath) = "file" THEN ResourceCredentials(res)
        ELSE ResourceError(<<"Failed to read resource: ">>)

ResourceInit == FnInit({ Call("ReadResource", u) : u \in ResourceUris })

ReadResource ==
    /\ fnIn.fn = "ReadResource"
    /\ \E res \in ResourceResults : FnReturn(ReadResourceHandler(fnIn.arg, res))

SpecResource == ResourceInit /\ [][ReadResource]_vars

ResourceRead == fnIn.fn = "ReadResource" /\ IsSome(fnOut)

\* the resolved path lies in one of the four directories
InCommonDirs(path) == \E d \in CommonDirs : StartsWith(path, d)
\* a segment of the path begins with "."
HiddenPath(path) == \E k \in 1..Len(path) : path[k][1] = "."

\* C28: the resource handler serves only Desktop, Downloads, Documents and
\* Pictures and no hidden file: a read of a path outside them, or of a
\* hidden file, never returns a listing or a credentials result.
C28_OnlyCommonDirs ==
    ( /\ ResourceRead
      /\ \/ ~InCommonDirs(resolve(fnIn.arg.path))
         \/ HiddenPath(resolve(fnIn.arg.path)) ) =>
        Get(fnOut).kind = "error"

(***************************************************************************)
(* readCredentialsFromFile from the reader output on: parseC2PAOutput,     *)
(* then the embedded result or the watermark check                         *)
(***************************************************************************)
\* what executeC2PANode hands to parseC2PAOutput
ReaderStdouts == {a \o b : a \in {<<>>, <<"x", " ">>}, b \in OutputCores}
ReaderStderrs == {<<>>, NoManifestFound, <<"w", "a", "r", "n">>}

ReaderOutput(stdout, stderr, d) == [stdout |-> stdout, stderr |-> stderr, decoder |-> d]

ReaderOutputs ==
    { ReaderOutput(o, e, d) : o \in ReaderStdouts, e \in ReaderStderrs, d \in DecoderOutcomes }

\* steps 1 to 3 of readCredentialsFromFile once executeC2PANode has returned
credentialsAfterReader(out) ==
    LET c2paResult == parseC2PAOutput(out.stdout, out.stderr)
    IN  IF SkipWatermark(c2paResult)
        THEN [embedded |-> c2paResult, watermarkChecks |-> 0, result |-> c2paResult]
        ELSE [embedded |-> c2paResult, watermarkChecks |-> 1,
              result |-> FinalResult(detectWatermark(out.decoder))]

EmbeddedInit == FnInit({ Call("readCredentialsFromFile", out) : out \in ReaderOutputs })

EmbeddedStage ==
    /\ fnIn.fn = "readCredentialsFromFile"
    /\ FnReturn(credentialsAfterReader(fnIn.arg))

SpecEmbedded == EmbeddedInit /\ [][EmbeddedStage]_vars

EmbeddedReturned == fnIn.fn = "readCredentialsFromFile" /\ IsSome(fnOut)

\* reader output with content, no sentinel on either channel, that is not JSON
UnparseableOutput(out) ==
    /\ HasContent(out.stdout)
    /\ ~MentionsSentinel(out.stdout) /\ ~MentionsSentinel(out.stderr)
    /\ ~JsonParses(Trim(out.stdout))

NoSession == 0

notSse == <<reqVars, trustVars, parseVars, callerVars, fnVars>>

\* GET /mcp up to its await: a new session id, a transport for it,
\* activeTransports.set(sessionId, transport), server.connect(transport) called
GetMcp(s) ==
    /\ ssePc[s] = "idle"
    /\ \A t \in Sessions : t < s => ssePc[t] # "idle"
    /\ ssePc' = [ssePc EXCEPT ![s] = "connecting"]
    /\ connection' = [connection EXCEPT ![s] = "open"]
    /\ activeTransports' = activeTransports \cup {s}
    /\ UNCHANGED <<postReply, notSse>>

\* server.connect resolves: the handlers of 'close' and 'error' are registered
ConnectResolves(s) ==
    /\ ssePc[s] = "connecting"
    /\ ssePc' = [ssePc EXCEPT ![s] = "listening"]
    /\ UNCHANGED <<activeTransports, connection, postReply, notSse>>

\* server.connect rejects: the catch logs and answers 500 when the headers
\* have not been sent
ConnectRejects(s) ==
    /\ ssePc[s] = "connecting"
    /\ ssePc' = [ssePc EXCEPT ![s] = "failed"]
    /\ connection' = [connection EXCEPT ![s] =
            IF @ = "open" THEN "failed" ELSE @]
    /\ UNCHANGED <<activeTransports, postReply, notSse>>

\* what a registered handler of 'close' or 'error' does
OnConnectionEnd(s) ==
    activeTransports' =
        IF ssePc[s] = "listening" THEN activeTransports \ {s} ELSE activeTransports

\* the request emits 'close'
ConnectionCloses(s) ==
    /\ connection[s] \in {"open", "errored"}
    /\ connection' = [connection EXCEPT ![s] = "closed"]
    /\ OnConnectionEnd(s)
    /\ UNCHANGED <<ssePc, postReply, notSse>>

\* the request emits 'error'
ConnectionErrors(s) ==
    /\ connection[s] = "open"
    /\ connection' = [connection EXCEPT ![s] = "errored"]
    /\ OnConnectionEnd(s)
    /\ UNCHANGED <<ssePc, postReply, notSse>>

PostReply(q, status, handled) ==
    [session |-> q, status |-> status, handled |-> handled,
     connection |-> IF q \in Sessions THEN connection[q] ELSE "none"]

\* POST /message?session=q: 400 without an id, 404 without a transport,
\* else transport.handlePostMessage, and 500 when that throws
PostMessage(q) ==
    /\ IF q = NoSession THEN postReply' = PostReply(q, 400, FALSE)
       ELSE IF q \notin activeTransports THEN postReply' = PostReply(q, 404, FALSE)
       ELSE \E status \in {202, 500} : postReply' = PostReply(q, status, TRUE)
    /\ UNCHANGED <<activeTransports, ssePc, connection, notSse>>

SseNext ==
    \/ \E s \in Sessions : GetMcp(s)
    \/ \E s \in Sessions : ConnectResolves(s)
    \/ \E s \in Sessions : ConnectRejects(s)
    \/ \E s \in Sessions : ConnectionCloses(s)
    \/ \E s \in Sessions : ConnectionErrors(s)
    \/ \E q \in Sessions \cup {NoSession} : PostMessage(q)

SpecSse == Init /\ [][SseNext]_vars

\* the connection of the session is over, or was never established
NotOpen(state) == state \in {"closed", "errored", "failed"}

\* C30: activeTransports holds a session id only while the SSE connection
\* of the session is open: once the connection has closed, errored or failed
\* to be established the entry is gone, and a POST /message that names the
\* session is answered 404 and is not handed to a transport.
C30_OnlyOpenSessions ==
    /\ \A s \in Sessions : NotOpen(connection[s]) => s \notin activeTransports
    /\ (postReply.session \in Sessions /\ NotOpen(postReply.connection)) =>
            (postReply.status = 404 /\ ~postReply.handled)

====
